---- MODULE Spec2Model ----
(***************************************************************************)
(* mkdocs-external-custom-emojis: the sync/cache engine.                   *)
(*                                                                         *)
(* The module models                                                       *)
(*   - EmojiInfo and its extension helpers        (models.py)              *)
(*   - EmojiCache                                  (sync/cache.py)         *)
(*   - EmojiDownloader.download                    (sync/downloader.py)    *)
(*   - SyncManager.sync_provider / _sync_to_icons  (sync/manager.py)       *)
(*   - AbstractEmojiProvider.resolve_aliases       (providers/base.py)     *)
(*   - the two top-level provider loops            (plugin.py, cli.py)     *)
(*                                                                         *)
(* Specifications:                                                         *)
(*   Spec       the sync manager working on one namespace                  *)
(*   SpecCache  the cache operations on an arbitrary on-disk cache         *)
(*   SpecPath   the two extension computations on arbitrary records        *)
(*   SpecTop    the plugin's and the CLI's loop over the providers         *)
(***************************************************************************)
EXTENDS Integers, Sequences, FiniteSets, TLC

(***************************************************************************)
(* Bounds of the model.                                                    *)
(***************************************************************************)
\* longest URL (in tokens, after the scheme) drawn by SpecPath
MaxUrlLen == 4
\* the clock runs from 0 to MaxTime (hours)
MaxTime == 1
\* largest configured ttl_hours
MaxTtl == 1
\* sync_provider is called at most MaxRuns times in one behaviour
MaxRuns == 2

(***************************************************************************)
(* Strings.  A URL is "https://" followed by a sequence of tokens; a token *)
(* is a piece of text that the code under study never looks inside of,     *)
(* except for its letter case.  No token is a concatenation of others, so  *)
(* a substring test on the text is a subsequence test on the tokens.       *)
(***************************************************************************)
\* EmojiInfo.url is None (a sequence no URL equals)
NoUrl == <<"None">>
NoFormat == "NoFormat"

\* models.py EmojiFormat: its members in declaration order
EmojiFormats == <<"svg", "png", "gif", "jpg", "webp">>
Formats == {EmojiFormats[k] : k \in 1..Len(EmojiFormats)}

UrlTokens == {"x", ".", "/", "?", "png", "PNG", "gif", "svg"}

\* str.lower() of one token
Lower(t) == IF t = "PNG" THEN "png" ELSE t

RECURSIVE SeqsUpTo(_, _)
SeqsUpTo(S, n) ==
    IF n = 0 THEN {<<>>}
    ELSE LET shorter == SeqsUpTo(S, n - 1)
         IN  shorter \cup {Append(s, t) : s \in {q \in shorter : Len(q) = n - 1}, t \in S}

\* position of the first token of s that is in stops, Len(s)+1 when none
RECURSIVE FirstOf(_, _, _)
FirstOf(s, stops, k) ==
    IF k > Len(s) THEN k
    ELSE IF s[k] \in stops THEN k
    ELSE FirstOf(s, stops, k + 1)

\* position of the last token of s equal to t, 0 when none (str.rfind)
RECURSIVE RFind(_, _, _)
RFind(s, t, k) ==
    IF k = 0 THEN 0
    ELSE IF s[k] = t THEN k
    ELSE RFind(s, t, k - 1)

\* urllib.parse.urlparse(url).path: the netloc ends at the first "/" or "?",
\* the path at the first "?"
UrlPath(url) ==
    LET n    == FirstOf(url, {"/", "?"}, 1)
        rest == SubSeq(url, n, Len(url))
        q    == FirstOf(rest, {"?"}, 1)
    IN  SubSeq(rest, 1, q - 1)

\* PurePath(path).name: the last component that is neither empty nor "."
RECURSIVE PathName(_)
PathName(path) ==
    IF path = <<>> THEN <<>>
    ELSE LET k    == RFind(path, "/", Len(path))
             last == SubSeq(path, k + 1, Len(path))
         IN  IF last = <<>> \/ last = <<".">>
             THEN IF k = 0 THEN <<>> ELSE PathName(SubSeq(path, 1, k - 1))
             ELSE last

\* PurePath(path).suffix.lower().lstrip("."): what follows the last dot of
\* the name, when that dot is neither its first nor its last character
PathSuffix(path) ==
    LET name == PathName(path)
        i    == RFind(name, ".", Len(name))
    IN  IF 1 < i /\ i < Len(name)
        THEN [k \in 1..(Len(name) - i) |-> Lower(name[i + k])]
        ELSE <<>>

\* EmojiInfo._detect_format_from_url
DetectFormatFromUrl(url) ==
    LET suffix == PathSuffix(UrlPath(url))
    IN  IF Len(suffix) = 1 /\ suffix[1] \in Formats THEN suffix[1] ELSE NoFormat

\* EmojiInfo.get_file_extension
GetFileExtension(emoji) ==
    IF emoji.format # NoFormat THEN emoji.format
    ELSE IF emoji.url # NoUrl /\ DetectFormatFromUrl(emoji.url) # NoFormat
         THEN DetectFormatFromUrl(emoji.url)
         ELSE "png"

\* f".{ext}" in url.lower()
DotExtIn(ext, url) ==
    \E k \in 1..(Len(url) - 1) : url[k] = "." /\ Lower(url[k + 1]) = ext

\* the for/else of EmojiCache._get_cached_path: the first listed extension
\* that occurs, "png" when none does
RECURSIVE FirstExtIn(_, _, _)
FirstExtIn(exts, url, k) ==
    IF k > Len(exts) THEN "png"
    ELSE IF DotExtIn(exts[k], url) THEN exts[k]
    ELSE FirstExtIn(exts, url, k + 1)

\* the extension chosen by EmojiCache._get_cached_path
CachedPathExt(emoji) ==
    IF emoji.format # NoFormat THEN emoji.format
    ELSE IF emoji.url # NoUrl THEN FirstExtIn(EmojiFormats, emoji.url, 1)
    ELSE "png"

\* EmojiCache._get_cached_path: the file name inside the namespace directory
GetCachedPath(emoji) == <<emoji.name, CachedPathExt(emoji)>>

(***************************************************************************)
(* The universe of the sync model: two emoji names, two remote URLs (one  *)
(* whose path ends in .png, one without a path extension whose host holds  *)
(* ".svg"), two versions of the image behind each URL.                     *)
(***************************************************************************)
Names == {"a", "b"}
\* a name no listing defines: the target of a broken alias
MissingName == "zz"
NoAlias == "NoAlias"

\* https://x/x.png
UrlPng == <<"x", "/", "x", ".", "png">>
\* https://x.svg/x
UrlBare == <<"x", ".", "svg", "/", "x">>
Urls == {UrlPng, UrlBare}

\* The image served at a URL changes with the version of the remote side;
\* a body is identified by the URL and the version it was served at.
Versions == {"v1", "v2"}
Bodies == Urls \X Versions
Served(url, version) == <<url, version>>

\* EmojiCache.METADATA_FILE, as <<stem, extension>>
MetaName == <<".metadata", "json">>

\* datetime: no cached_at in a metadata row
NoTime == -1

EmptyMap == [x \in {} |-> 0]

\* dict[k] = v
Put(f, k, v) == [x \in (DOMAIN f) \cup {k} |-> IF x = k THEN v ELSE f[x]]

\* EmojiInfo(name, url, alias_of, format)
Emoji(n, u, al, f) == [name |-> n, url |-> u, alias_of |-> al, format |-> f]

\* EmojiInfo.is_alias
IsAlias(emoji) == emoji.alias_of # NoAlias

\* EmojiInfo.from_url
FromUrl(n, u) == Emoji(n, u, NoAlias, DetectFormatFromUrl(u))

\* EmojiInfo.from_alias
FromAlias(n, target) == Emoji(n, NoUrl, target, NoFormat)

\* the names of an ordered mapping (a dict in insertion order)
KeysOf(emojis) == {emojis[k].name : k \in 1..Len(emojis)}

\* emojis[name]
Lookup(emojis, n) == emojis[CHOOSE k \in 1..Len(emojis) : emojis[k].name = n]

(***************************************************************************)
(* providers/base.py and providers/slack.py                                *)
(***************************************************************************)
\* fnmatch.fnmatch(name, pattern) on sequences of characters: "*" matches
\* any run of characters, "?" matches one, another character matches itself
RECURSIVE Fnmatch(_, _)
Fnmatch(n, pattern) ==
    IF pattern = <<>> THEN n = <<>>
    ELSE IF Head(pattern) = "*"
         THEN Fnmatch(n, Tail(pattern)) \/ (n # <<>> /\ Fnmatch(Tail(n), pattern))
    ELSE IF n = <<>> THEN FALSE
    ELSE (Head(pattern) = "?" \/ Head(pattern) = Head(n)) /\ Fnmatch(Tail(n), Tail(pattern))

\* faulty variant: filter_emojis letting an include pattern win over an exclude
FilterIncludeFirst(emojis, include_patterns, exclude_patterns) ==
    IF include_patterns = {} /\ exclude_patterns = {} THEN emojis
    ELSE LET keep(e) ==
                 \/ \E pat \in include_patterns : Fnmatch(e.name, pat)
                 \/ /\ include_patterns = {}
                    /\ ~(\E pat \in exclude_patterns : Fnmatch(e.name, pat))
         IN  SelectSeq(emojis, keep)

\* AbstractEmojiProvider.filter_emojis
FilterEmojis(emojis, include_patterns, exclude_patterns) ==
    IF include_patterns = {} /\ exclude_patterns = {} THEN emojis
    ELSE LET keep(e) ==
                 /\ ~(\E pat \in exclude_patterns : Fnmatch(e.name, pat))
                 /\ (include_patterns = {}
                        \/ \E pat \in include_patterns : Fnmatch(e.name, pat))
         IN  SelectSeq(emojis, keep)

\* max_depth of resolve_aliases
MaxAliasDepth == 10

\* faulty variant: the alias's own target taken without following the chain
FollowOneHop(emojis, target, depth) == target

\* the while loop of resolve_aliases: follow the chain through the original
\* mapping while the target is an alias and depth < max_depth
RECURSIVE FollowAlias(_, _, _)
FollowAlias(emojis, target, depth) ==
    IF /\ target \in KeysOf(emojis)
       /\ IsAlias(Lookup(emojis, target))
       /\ depth < MaxAliasDepth
    THEN FollowAlias(emojis, Lookup(emojis, target).alias_of, depth + 1)
    ELSE target

\* the second pass of resolve_aliases from entry k on; resolved grows as the
\* pass goes
RECURSIVE ResolvePass(_, _, _)
ResolvePass(emojis, resolved, k) ==
    IF k > Len(emojis) THEN resolved
    ELSE LET emoji  == emojis[k]
             target == FollowAlias(emojis, emoji.alias_of, 0)
         IN  IF IsAlias(emoji) /\ target \in KeysOf(resolved)
             THEN LET target_emoji == Lookup(resolved, target)
                  IN  ResolvePass(emojis,
                        Append(resolved, Emoji(emoji.name, target_emoji.url,
                                               NoAlias, target_emoji.format)),
                        k + 1)
             ELSE ResolvePass(emojis, resolved, k + 1)

\* faulty variant: resolve_aliases rebuilding every entry without its format
ResolveUnformatted(emojis) ==
    [k \in 1..Len(emojis) |-> [emojis[k] EXCEPT !.format = NoFormat]]

\* faulty variant: resolve_aliases handing the mapping on as it is
KeepUnresolved(emojis) == emojis

\* faulty variant: resolve_aliases keeping the non-alias entries only
DropAliases(emojis) ==
    LET NotAlias(e) == ~IsAlias(e)
    IN  SelectSeq(emojis, NotAlias)

\* faulty variant: resolve_aliases whose record for a resolved alias still
\* names its target
ResolveKeepingAliasOf(emojis) ==
    LET NotAlias(e) == ~IsAlias(e)
        out == ResolvePass(emojis, SelectSeq(emojis, NotAlias), 1)
    IN  [k \in 1..Len(out) |->
            [out[k] EXCEPT !.alias_of = Lookup(emojis, out[k].name).alias_of]]

\* AbstractEmojiProvider.resolve_aliases
ResolveAliases(emojis) ==
    LET NotAlias(e) == ~IsAlias(e)
    IN  ResolvePass(emojis, SelectSeq(emojis, NotAlias), 1)

\* A remote listing is a sequence of <<name, value>> with distinct names;
\* value is <<"url", u>> or <<"alias", target>> (Slack's "alias:target").
\* The parse loop of SlackEmojiProvider.fetch_emojis.
SlackParse(listing) ==
    [k \in 1..Len(listing) |->
        IF listing[k][2][1] = "alias"
        THEN FromAlias(listing[k][1], listing[k][2][2])
        ELSE FromUrl(listing[k][1], listing[k][2][2])]

\* faulty variant: fetch_emojis returning the filtered mapping unresolved
FetchUnresolved(listing) == FilterEmojis(SlackParse(listing), {}, {})

\* SlackEmojiProvider.fetch_emojis on a successful response, for a provider
\* configured without filter patterns (ProviderFilter's defaults)
FetchEmojis(listing) == ResolveAliases(FilterEmojis(SlackParse(listing), {}, {}))

(***************************************************************************)
(* sync/downloader.py                                                      *)
(***************************************************************************)
\* EmojiOptions.max_size_kb of the model's configuration
MaxSizeKb == 1
SizeLimit == MaxSizeKb * 1024

\* response.headers.get("content-length"): absent, not a number, or a number
NoHeader == -1
BadHeader == -2

\* What the remote answers to one GET: net (the request succeeded),
\* clen (the content-length header), chunks (the sizes of the chunks that
\* iter_content yields), broken (the stream fails after those chunks),
\* image (the body decodes as an image).
Responses ==
    [net : BOOLEAN,
     clen : {NoHeader, BadHeader, SizeLimit, SizeLimit + 1},
     chunks : {<<1>>, <<SizeLimit>>, <<SizeLimit, 1>>},
     broken : BOOLEAN,
     image : BOOLEAN]

\* faulty variant: the declared length rejected from the ceiling on
DeclaredAtLeastLimit(content_length) ==
    content_length # NoHeader /\ content_length >= SizeLimit

\* lines 65-70: the header is present and int(content_length) / 1024 >
\* self.max_size_kb
DeclaredTooLarge(content_length) ==
    content_length # NoHeader /\ content_length > SizeLimit

\* faulty variant: a streaming loop that does not look at the running total
NeverExceeds(total_size) == FALSE

\* total_size > self.max_size_kb * 1024
Exceeds(total_size) == total_size > SizeLimit

\* the streaming loop of download: the running total after each chunk, -1 as
\* soon as it exceeds the limit
RECURSIVE StreamTotal(_, _, _)
StreamTotal(chunks, k, total) ==
    IF k > Len(chunks) THEN total
    ELSE IF Exceeds(total + chunks[k]) THEN -1
    ELSE StreamTotal(chunks, k + 1, total + chunks[k])

\* EmojiDownloader.download: kind is "ok", "DownloadError" or "ValueError";
\* size is total_size; staged tells whether the call leaves its temporary
\* file on disk
Download(emoji, resp) ==
    LET out(kind, msg, size, staged) ==
            [kind |-> kind, msg |-> <<msg, emoji.name>>, size |-> size, staged |-> staged]
        total == StreamTotal(resp.chunks, 1, 0)
    IN  IF emoji.url = NoUrl THEN out("DownloadError", "No URL for emoji", 0, FALSE)
        ELSE IF ~resp.net THEN out("DownloadError", "Failed to download", 0, FALSE)
        ELSE IF resp.clen = BadHeader THEN out("ValueError", "invalid literal for int()", 0, FALSE)
        ELSE IF DeclaredTooLarge(resp.clen)
             THEN out("DownloadError", "too large", 0, FALSE)
        ELSE IF total = -1 THEN out("DownloadError", "Error downloading", 0, FALSE)
        ELSE IF resp.broken THEN out("DownloadError", "Error downloading", 0, FALSE)
        ELSE IF ~resp.image THEN out("DownloadError", "Invalid image file", 0, TRUE)
        ELSE out("ok", "", total, TRUE)

(***************************************************************************)
(* sync/cache.py, as functions of the cache's state: metadata (the table   *)
(* in memory), files (the asset files of the namespace directory), disk    *)
(* (the metadata file).                                                    *)
(***************************************************************************)
\* the metadata file: absent, unparsable, or holding a table; text tells
\* whether its bytes decode in the encoding open() reads it with
NoMetaFile == [exists |-> FALSE, corrupt |-> FALSE, text |-> TRUE, table |-> EmptyMap]
CorruptMetaFile == [exists |-> TRUE, corrupt |-> TRUE, text |-> TRUE, table |-> EmptyMap]
UndecodableMetaFile == [exists |-> TRUE, corrupt |-> TRUE, text |-> FALSE, table |-> EmptyMap]
MetaFile(table) == [exists |-> TRUE, corrupt |-> FALSE, text |-> TRUE, table |-> table]

\* EmojiCache._load_metadata leaves with an exception that is neither OSError
\* nor json.JSONDecodeError: the UnicodeDecodeError of json.load(f)
LoadRaises(disk) == disk.exists /\ ~disk.text

\* faulty variant: a cache that finds no metadata when it is opened
LoadNothing(disk) == EmptyMap

\* EmojiCache._load_metadata
LoadMetadata(disk) ==
    IF ~disk.exists THEN EmptyMap
    ELSE IF disk.corrupt THEN EmptyMap
    ELSE disk.table

\* EmojiCache._save_metadata
SaveMetadata(metadata) == MetaFile(metadata)

\* faulty variant: the freshness test with <= for <
FreshOrEqual(cached_at, t, hours) == t - cached_at <= hours

\* datetime.now() - cached_dt < ttl
Fresh(cached_at, t, ttl_hours) == t - cached_at < ttl_hours

\* EmojiCache.is_cached
IsCached(metadata, files, emoji, t, ttl_hours) ==
    IF emoji.name \notin DOMAIN metadata THEN FALSE
    ELSE IF GetCachedPath(emoji) \notin DOMAIN files THEN FALSE
    ELSE IF metadata[emoji.name].cached_at = NoTime THEN FALSE
    ELSE Fresh(metadata[emoji.name].cached_at, t, ttl_hours)

\* the metadata row written by EmojiCache.store
StoreRow(emoji, size_bytes, t) ==
    [url |-> emoji.url, format |-> emoji.format, size_bytes |-> size_bytes, cached_at |-> t]

\* faulty variant: store without _save_metadata()
StoreNoSave(metadata, files, emoji, body, size_bytes, t) ==
    [metadata |-> Put(metadata, emoji.name, StoreRow(emoji, size_bytes, t)),
     files |-> Put(files, GetCachedPath(emoji), body),
     disk |-> MetaFile(metadata)]

\* EmojiCache.store: the cache state after the call
Store(metadata, files, emoji, body, size_bytes, t) ==
    LET md == Put(metadata, emoji.name, StoreRow(emoji, size_bytes, t))
    IN  [metadata |-> md,
         files |-> Put(files, GetCachedPath(emoji), body),
         disk |-> SaveMetadata(md)]

\* faulty variant: clean() that keeps the metadata table
CleanKeepsTable(metadata, files) ==
    [metadata |-> metadata,
     files |-> EmptyMap,
     disk |-> SaveMetadata(metadata),
     count |-> Cardinality(DOMAIN files)]

\* EmojiCache.clean: the cache state after the call and the returned count
Clean(metadata, files) ==
    [metadata |-> EmptyMap,
     files |-> EmptyMap,
     disk |-> SaveMetadata(EmptyMap),
     count |-> Cardinality(DOMAIN files)]

\* the rows clean_stale collects in stale_names
StaleNames(metadata, t, ttl_hours) ==
    {n \in DOMAIN metadata :
        \/ metadata[n].cached_at = NoTime
        \/ ~Fresh(metadata[n].cached_at, t, ttl_hours)}

\* file.stem == name: the files of the directory that clean_stale's inner
\* loop can stop at for a name
WithStem(files, n) == {fn \in DOMAIN files : fn[1] = n}

\* the orders in which iterdir() can list the directory, as far as they
\* matter: for every stale name that has files, the one listed first
FirstListed(metadata, files, t, ttl_hours) ==
    LET named == {n \in StaleNames(metadata, t, ttl_hours) : WithStem(files, n) # {}}
    IN  {pick \in [named -> DOMAIN files] : \A n \in named : pick[n] \in WithStem(files, n)}

\* EmojiCache.clean_stale, iterdir() listing pick[n] first for name n
CleanStale(metadata, files, disk, t, ttl_hours, pick) ==
    LET stale == StaleNames(metadata, t, ttl_hours)
        gone  == {pick[n] : n \in DOMAIN pick}
        md    == [n \in (DOMAIN metadata) \ stale |-> metadata[n]]
    IN  [metadata |-> md,
         files |-> [fn \in (DOMAIN files) \ gone |-> files[fn]],
         disk |-> IF Cardinality(gone) > 0 THEN SaveMetadata(md) ELSE disk,
         count |-> Cardinality(gone)]

\* st_size of a cached file
SizeOf(body) == IF body[2] = "v1" THEN 1 ELSE SizeLimit

RECURSIVE SumSizes(_, _)
SumSizes(files, names) ==
    IF names = {} THEN 0
    ELSE LET fn == CHOOSE x \in names : TRUE
         IN  SizeOf(files[fn]) + SumSizes(files, names \ {fn})

\* cache_dir.iterdir(): the names in the namespace directory
CacheDirList(files, disk) == (DOMAIN files) \cup (IF disk.exists THEN {MetaName} ELSE {})

\* EmojiCache.get_stats: total_files and total_size_bytes
GetStats(files, disk) ==
    [total_files |-> Cardinality(CacheDirList(files, disk)) - 1,
     total_size_bytes |-> SumSizes(files, CacheDirList(files, disk) \ {MetaName})]

\* faulty variant: _sync_to_icons that leaves the files already published alone
SyncToIconsNewOnly(files, disk, icons) ==
    LET copied == CacheDirList(files, disk) \ {MetaName}
    IN  [fn \in (DOMAIN icons) \cup copied |->
            IF fn \in DOMAIN icons THEN icons[fn] ELSE files[fn]]

\* faulty variant: _sync_to_icons that makes the publish directory a mirror of
\* the cache, removing what the cache no longer has
SyncToIconsMirror(files, disk, icons) ==
    LET copied == CacheDirList(files, disk) \ {MetaName}
    IN  [fn \in copied |-> files[fn]]

\* SyncManager._sync_to_icons: the namespace directory of the publish
\* directory after the copy loop
SyncToIcons(files, disk, icons) ==
    LET copied == CacheDirList(files, disk) \ {MetaName}
    IN  [fn \in (DOMAIN icons) \cup copied |->
            IF fn \in copied THEN files[fn] ELSE icons[fn]]

(***************************************************************************)
(* State.                                                                  *)
(***************************************************************************)
VARIABLES
    ttl_hours,      \* CacheConfig.ttl_hours
    clean_on_build, \* CacheConfig.clean_on_build
    now,            \* datetime.now(), in hours
    remote,         \* the listing the provider's API serves
    version,        \* the version of the images the remote serves
    remoteChanged,  \* the remote side changed since the last call
    cacheFiles,     \* <cache dir>/<namespace>/: asset file name -> content
    metaDisk,       \* <cache dir>/<namespace>/.metadata.json
    iconFiles,      \* <icons dir>/<namespace>/: file name -> content
    staged,         \* temporary files that this call's downloads left on disk
    pc,             \* sync_provider: "idle", "loop", "done" (returned), "raised"
    force,          \* sync_provider's force argument
    fetched,        \* whether provider.fetch_emojis() returned
    metadata,       \* cache.metadata of the cache object in use
    emojis,         \* the fetched mapping, in iteration order
    idx,            \* position of the for loop (1-based)
    result,         \* the SyncResult being built, then returned
    attempts,       \* names passed to downloader.download in this call
    progress_callback, \* whether sync_provider was given a progress callback
    calls,          \* the arguments of the callback's calls in this call
    runs,           \* calls of sync_provider so far
    first,          \* what the call before this one left behind
    returned,       \* the hour at which the last call returned
    probe,          \* SpecPath, SpecCache: the EmojiInfo an operation is given
    extCache,       \* SpecPath: the extension _get_cached_path chose
    extFile,        \* SpecPath: what get_file_extension returned
    cacheOp,        \* SpecCache: the last cache operation and what it returned
    top,            \* SpecTop: the loop over the enabled providers
    call            \* SpecAlias, SpecFilter, SpecDownload: one call of a function

cfgVars == <<ttl_hours, clean_on_build>>
worldVars == <<remote, version, remoteChanged>>
diskVars == <<cacheFiles, metaDisk, iconFiles, staged>>
callVars == <<pc, force, fetched, metadata, emojis, idx, result, attempts,
              progress_callback, calls, runs, first, returned>>
pathVars == <<probe, extCache, extFile>>
auxVars == <<pathVars, cacheOp, top, call>>
vars == <<cfgVars, now, worldVars, diskVars, callVars, auxVars>>

\* the remote listings of the sync model: empty, one emoji, an alias after
\* and before its target, two emojis, a broken chain, a self-alias
Listings ==
    { <<>>,
      << <<"a", <<"url", UrlPng>> >> >>,
      << <<"a", <<"url", UrlPng>> >>, <<"b", <<"alias", "a">> >> >>,
      << <<"b", <<"alias", "a">> >>, <<"a", <<"url", UrlBare>> >> >>,
      << <<"a", <<"url", UrlBare>> >>, <<"b", <<"url", UrlPng>> >> >>,
      << <<"a", <<"alias", "b">> >>, <<"b", <<"alias", MissingName>> >> >>,
      << <<"a", <<"alias", "a">> >>, <<"b", <<"url", UrlPng>> >> >> }

\* the responses of the sync model: a one-byte body, and one response for
\* every outcome of download
SyncResponses ==
    {r \in Responses :
        /\ r.chunks = <<1>> /\ ~r.broken /\ r.clen # SizeLimit
        /\ (r.clen # NoHeader \/ ~r.net) => r.image
        /\ ~r.net => r.clen = NoHeader}

\* SyncResult(total_emojis, synced=0, cached=0, skipped=0, errors)
NewResult(total, errors) ==
    [total_emojis |-> total, synced |-> 0, cached |-> 0, skipped |-> 0, errors |-> errors]

\* faulty variant: a skipped record is counted without its error message
SkipUnreported(res, msg) == [res EXCEPT !.skipped = @ + 1]

\* result.skipped += 1; result.errors.append(msg)
Skip(res, msg) == [res EXCEPT !.skipped = @ + 1, !.errors = Append(@, msg)]

\* SyncResult.success
Success(res) == Len(res.errors) = 0

NoFirst == [valid |-> FALSE, force |-> FALSE, emojis |-> <<>>, icons |-> EmptyMap,
            metadata |-> EmptyMap, result |-> NewResult(0, <<>>), at |-> NoTime,
            changed |-> FALSE]

\* what a call that returned after a successful fetch left behind, when it
\* returned, and whether the remote side changed since
Snapshot ==
    IF pc = "done" /\ fetched
    THEN [valid |-> TRUE, force |-> force, emojis |-> emojis, icons |-> iconFiles,
          metadata |-> metadata, result |-> result, at |-> returned,
          changed |-> remoteChanged]
    ELSE NoFirst

NoProbe == Emoji("", NoUrl, NoAlias, NoFormat)
\* the record of a cache operation: its name, its EmojiInfo, the staged
\* file's body and size (store), what it returned (is_cached), and whether
\* the name had a metadata row before it (store)
CacheOp(op, emoji, body, size, ret, had) ==
    [op |-> op, emoji |-> emoji, body |-> body, size |-> size, ret |-> ret, had |-> had,
     count |-> 0]
NoOp == CacheOp("none", NoProbe, Served(NoUrl, "v1"), 0, FALSE, FALSE)

\* the top-level loop before it is entered
NoTop == [entry |-> "none", fail_on_error |-> FALSE, providers |-> <<>>, pc |-> "idle",
          i |-> 1, instantiated |-> {}, synced |-> {}, total_errors |-> 0]

\* no function under study
NoCall == [name |-> "none"]

\* the variables of the other specifications, at rest
AuxIdle ==
    /\ probe = NoProbe
    /\ extCache = ""
    /\ extFile = ""
    /\ cacheOp = NoOp
    /\ top = NoTop
    /\ call = NoCall

\* no call of sync_provider yet
CallIdle ==
    /\ pc = "idle"
    /\ force = FALSE
    /\ fetched = FALSE
    /\ emojis = <<>>
    /\ idx = 1
    /\ result = NewResult(0, <<>>)
    /\ attempts = <<>>
    /\ progress_callback = FALSE
    /\ calls = <<>>
    /\ runs = 0
    /\ first = NoFirst
    /\ returned = NoTime

Init ==
    /\ ttl_hours \in 0..MaxTtl
    /\ clean_on_build \in BOOLEAN
    /\ now = 0
    /\ remote \in Listings
    /\ version = "v1"
    /\ remoteChanged = FALSE
    /\ cacheFiles = EmptyMap
    /\ metaDisk = NoMetaFile
    /\ iconFiles = EmptyMap
    /\ staged = 0
    /\ metadata = EmptyMap
    /\ AuxIdle
    /\ CallIdle

(***************************************************************************)
(* SyncManager.sync_provider                                               *)
(***************************************************************************)
\* faulty variant: the exception of provider.fetch_emojis() leaves sync_provider
SyncFetchPropagates(f, cb) ==
    /\ pc # "loop"
    /\ progress_callback' = cb
    /\ calls' = <<>>
    /\ runs < MaxRuns
    /\ runs' = runs + 1
    /\ first' = Snapshot
    /\ force' = f
    /\ fetched' = FALSE
    /\ metadata' = LoadMetadata(metaDisk)
    /\ emojis' = <<>>
    /\ idx' = 1
    /\ attempts' = <<>>
    /\ result' = NewResult(0, <<>>)
    /\ pc' = "raised"
    /\ returned' = NoTime
    /\ staged' = 0
    /\ remoteChanged' = FALSE
    /\ UNCHANGED <<cfgVars, now, remote, version, cacheFiles, metaDisk, iconFiles>>
    /\ UNCHANGED auxVars

\* line 60: EmojiCache(...) raises out of _load_metadata, and the exception
\* leaves sync_provider before the listing is fetched
SyncOpenFailed(f, cb) ==
    /\ pc # "loop"
    /\ progress_callback' = cb
    /\ calls' = <<>>
    /\ LoadRaises(metaDisk)
    /\ runs < MaxRuns
    /\ runs' = runs + 1
    /\ first' = Snapshot
    /\ force' = f
    /\ fetched' = FALSE
    /\ emojis' = <<>>
    /\ idx' = 1
    /\ attempts' = <<>>
    /\ result' = NewResult(0, <<>>)
    /\ pc' = "raised"
    /\ returned' = NoTime
    /\ staged' = 0
    /\ remoteChanged' = FALSE
    /\ UNCHANGED <<cfgVars, now, remote, version, cacheFiles, metaDisk, iconFiles, metadata>>
    /\ UNCHANGED auxVars

\* faulty variant: the cache is cleaned before the listing is fetched
SyncFetchFailedAfterClean(f, cb) ==
    /\ pc # "loop"
    /\ progress_callback' = cb
    /\ calls' = <<>>
    /\ ~LoadRaises(metaDisk)
    /\ runs < MaxRuns
    /\ runs' = runs + 1
    /\ first' = Snapshot
    /\ force' = f
    /\ fetched' = FALSE
    /\ LET loaded == LoadMetadata(metaDisk)
           cleaned == Clean(loaded, cacheFiles)
       IN  IF clean_on_build \/ f
           THEN /\ metadata' = cleaned.metadata
                /\ cacheFiles' = cleaned.files
                /\ metaDisk' = cleaned.disk
           ELSE /\ metadata' = loaded
                /\ UNCHANGED <<cacheFiles, metaDisk>>
    /\ emojis' = <<>>
    /\ idx' = 1
    /\ attempts' = <<>>
    /\ result' = NewResult(0, << <<"Failed to fetch emojis", "">> >>)
    /\ pc' = "done"
    /\ returned' = now
    /\ staged' = 0
    /\ remoteChanged' = FALSE
    /\ UNCHANGED <<cfgVars, now, remote, version, iconFiles>>
    /\ UNCHANGED auxVars

\* lines 59-74: the cache is opened, provider.fetch_emojis() raises, and the
\* call returns a result with one error
SyncFetchFailed(f, cb) ==
    /\ pc # "loop"
    /\ progress_callback' = cb
    /\ calls' = <<>>
    /\ ~LoadRaises(metaDisk)
    /\ runs < MaxRuns
    /\ runs' = runs + 1
    /\ first' = Snapshot
    /\ force' = f
    /\ fetched' = FALSE
    /\ metadata' = LoadMetadata(metaDisk)
    /\ emojis' = <<>>
    /\ idx' = 1
    /\ attempts' = <<>>
    /\ result' = NewResult(0, << <<"Failed to fetch emojis", "">> >>)
    /\ pc' = "done"
    /\ returned' = now
    /\ staged' = 0
    /\ remoteChanged' = FALSE
    /\ UNCHANGED <<cfgVars, now, remote, version, cacheFiles, metaDisk, iconFiles>>
    /\ UNCHANGED auxVars

\* lines 59-87: the cache is opened, the listing is fetched, the result is
\* created and the cache is cleaned when clean_on_build or force is set
SyncBegin(f, cb) ==
    /\ pc # "loop"
    /\ progress_callback' = cb
    /\ calls' = <<>>
    /\ ~LoadRaises(metaDisk)
    /\ runs < MaxRuns
    /\ runs' = runs + 1
    /\ first' = Snapshot
    /\ force' = f
    /\ fetched' = TRUE
    /\ emojis' = FetchEmojis(remote)
    /\ result' = NewResult(Len(emojis'), <<>>)
    /\ idx' = 1
    /\ attempts' = <<>>
    /\ LET loaded == LoadMetadata(metaDisk)
           cleaned == Clean(loaded, cacheFiles)
       IN  IF clean_on_build \/ f
           THEN /\ metadata' = cleaned.metadata
                /\ cacheFiles' = cleaned.files
                /\ metaDisk' = cleaned.disk
           ELSE /\ metadata' = loaded
                /\ UNCHANGED <<cacheFiles, metaDisk>>
    /\ pc' = "loop"
    /\ returned' = NoTime
    /\ staged' = 0
    /\ remoteChanged' = FALSE
    /\ UNCHANGED <<cfgVars, now, remote, version, iconFiles>>
    /\ UNCHANGED auxVars

\* what one iteration of the loop reads and writes
Frame ==
    [pc |-> pc, idx |-> idx, result |-> result, metadata |-> metadata,
     cacheFiles |-> cacheFiles, metaDisk |-> metaDisk, staged |-> staged,
     attempts |-> attempts, calls |-> calls]

\* faulty variant: the callback counts the records from 0
ReportFromZero(cb, log, name, i, total) ==
    IF cb THEN Append(log, <<name, i - 1, total>>) ELSE log

\* lines 91-92: if progress_callback: progress_callback(name, i, len(emojis))
Report(cb, log, name, i, total) ==
    IF cb THEN Append(log, <<name, i, total>>) ELSE log

\* faulty variant: a download is tried a second time
AttemptTwice(st, name) == [st EXCEPT !.attempts = Append(Append(@, name), name)]

\* line 107: self.downloader.download(emoji) is called, once
Attempt(st, name) == [st EXCEPT !.attempts = Append(@, name)]

\* faulty variant: a failed download evicts the name's row and files
FailedEvicting(st, name, got) ==
    LET table == [n \in (DOMAIN st.metadata) \ {name} |-> st.metadata[n]]
    IN  [st EXCEPT !.staged = IF got.staged THEN @ + 1 ELSE @,
                   !.result = Skip(@, got.msg),
                   !.metadata = table,
                   !.cacheFiles = [fn \in {g \in DOMAIN st.cacheFiles : g[1] # name}
                                      |-> st.cacheFiles[fn]],
                   !.metaDisk = MetaFile(table),
                   !.idx = @ + 1]

\* lines 117-119: except DownloadError: the message is appended and the
\* record is counted as skipped
Failed(st, name, got) ==
    [st EXCEPT !.staged = IF got.staged THEN @ + 1 ELSE @,
               !.result = Skip(@, got.msg),
               !.idx = @ + 1]

\* lines 90-119: one iteration of the loop from the frame st, with or
\* without a callback, for the response resp that the remote gives if the
\* record is downloaded
SyncIteration(st, cb, resp) ==
    LET emoji == emojis[st.idx]
        told  == [st EXCEPT !.calls = Report(cb, @, emoji.name, st.idx, Len(emojis))]
        got   == Download(emoji, resp)
        kept  == Store(st.metadata, st.cacheFiles, emoji, Served(emoji.url, version),
                       got.size, now)
        tried == Attempt(told, emoji.name)
    IN  IF ~force /\ IsCached(st.metadata, st.cacheFiles, emoji, now, ttl_hours)
        THEN [told EXCEPT !.result.cached = @ + 1, !.idx = @ + 1]
        ELSE IF emoji.url = NoUrl
        THEN [told EXCEPT !.result = Skip(@, <<"No URL for emoji", emoji.name>>),
                          !.idx = @ + 1]
        ELSE CASE got.kind = "ok" ->
                    [tried EXCEPT !.metadata = kept.metadata,
                                  !.cacheFiles = kept.files,
                                  !.metaDisk = kept.disk,
                                  !.result.synced = @ + 1,
                                  !.idx = @ + 1]
               [] got.kind = "DownloadError" ->
                    Failed(tried, emoji.name, got)
               [] OTHER ->
                    [tried EXCEPT !.pc = "raised"]

\* lines 90-119: one iteration of the loop
SyncRecord(resp) ==
    /\ pc = "loop"
    /\ idx <= Len(emojis)
    /\ LET after == SyncIteration(Frame, progress_callback, resp)
       IN  /\ pc' = after.pc
           /\ idx' = after.idx
           /\ result' = after.result
           /\ metadata' = after.metadata
           /\ cacheFiles' = after.cacheFiles
           /\ metaDisk' = after.metaDisk
           /\ staged' = after.staged
           /\ attempts' = after.attempts
           /\ calls' = after.calls
    /\ UNCHANGED <<cfgVars, now, worldVars, iconFiles, force, fetched, emojis,
                   progress_callback, runs, first, returned>>
    /\ UNCHANGED auxVars

\* lines 121-124: the cache directory is copied to the icons directory and
\* the result is returned
SyncPublish ==
    /\ pc = "loop"
    /\ idx > Len(emojis)
    /\ iconFiles' = SyncToIcons(cacheFiles, metaDisk, iconFiles)
    /\ pc' = "done"
    /\ returned' = now
    /\ UNCHANGED <<cfgVars, now, worldVars, cacheFiles, metaDisk, staged,
                   force, fetched, metadata, emojis, idx, result, attempts,
                   progress_callback, calls, runs, first>>
    /\ UNCHANGED auxVars

(***************************************************************************)
(* The environment.                                                        *)
(***************************************************************************)
\* an hour passes
Tick ==
    /\ now < MaxTime
    /\ now' = now + 1
    /\ UNCHANGED <<cfgVars, worldVars, diskVars, callVars>>
    /\ UNCHANGED auxVars

\* between two calls the remote listing or the remote images change
RemoteChange ==
    /\ pc \in {"done", "raised"}
    /\ runs < MaxRuns
    /\ ~remoteChanged
    /\ remoteChanged' = TRUE
    /\ remote' \in Listings
    /\ version' \in Versions
    /\ <<remote', version'>> # <<remote, version>>
    /\ UNCHANGED <<cfgVars, now, diskVars, callVars>>
    /\ UNCHANGED auxVars

Next ==
    \/ \E f \in BOOLEAN : SyncFetchFailed(f, FALSE)
    \/ \E f \in BOOLEAN : SyncBegin(f, FALSE)
    \/ \E resp \in SyncResponses : SyncRecord(resp)
    \/ SyncPublish
    \/ Tick
    \/ RemoteChange

Spec == Init /\ [][Next]_vars

(***************************************************************************)
(* Properties of sync_provider.                                            *)
(***************************************************************************)
\* the names of the records of the listing that have a URL, in order
NamesWithUrl(records) ==
    LET HasUrl(e) == e.url # NoUrl
        with_url == SelectSeq(records, HasUrl)
    IN  [k \in 1..Len(with_url) |-> with_url[k].name]

\* the call that just returned is the second of two calls without force
\* and without clean_on_build, both after a successful fetch, with the
\* remote side unchanged and less than the TTL between the two returns
SecondRun ==
    /\ pc = "done"
    /\ fetched
    /\ ~force
    /\ ~clean_on_build
    /\ first.valid
    /\ ~first.force
    /\ ~first.changed
    /\ first.emojis = emojis
    /\ ttl_hours > 0
    /\ now - first.at < ttl_hours

\* no download, everything cached, the same published files
NothingToDo ==
    /\ attempts = <<>>
    /\ result.synced = 0
    /\ result.cached = result.total_emojis
    /\ iconFiles = first.icons

(***************************************************************************)
(* C1 (as stated).  The second of two runs with force off, clean_on_build  *)
(* off, an unchanged remote listing and less than the TTL between them     *)
(* downloads nothing, returns synced = 0 and cached = total_emojis, and    *)
(* leaves the published directory as the first run left it.                *)
(***************************************************************************)
C1_SecondRunDownloadsNothing == SecondRun => NothingToDo

(***************************************************************************)
(* C1 (amended).  The same, provided the first run skipped no record and   *)
(* every entry of the listing is still younger than the TTL when the       *)
(* second run returns.                                                     *)
(***************************************************************************)
C1_SecondRunAfterCompleteFirstDownloadsNothing ==
    ( /\ SecondRun
      /\ first.result.skipped = 0
      /\ \A k \in 1..Len(emojis) :
            /\ emojis[k].name \in DOMAIN first.metadata
            /\ first.metadata[emojis[k].name].cached_at # NoTime
            /\ now - first.metadata[emojis[k].name].cached_at < ttl_hours )
    => NothingToDo

\* a second run over a listing of two records found both in the cache
C1_WitnessSecondRunAllCached ==
    /\ SecondRun
    /\ first.result.skipped = 0
    /\ first.result.synced = 2
    /\ result.cached = 2
    /\ NothingToDo

(***************************************************************************)
(* C2.  When provider.fetch_emojis raises, sync_provider does not raise:   *)
(* it returns a result with total_emojis, synced, cached and skipped all   *)
(* zero and exactly one error, and no record is processed.                 *)
(***************************************************************************)
C2_FetchFailureReturnsOneError ==
    (pc # "idle" /\ ~fetched) =>
        /\ pc = "done"
        /\ result.total_emojis = 0
        /\ result.synced = 0
        /\ result.cached = 0
        /\ result.skipped = 0
        /\ Len(result.errors) = 1
        /\ emojis = <<>>
        /\ idx = 1
        /\ attempts = <<>>

\* a fetch failure in a call that follows a call which filled the cache
C2_WitnessFetchFailedAfterSync ==
    /\ pc = "done"
    /\ ~fetched
    /\ runs = 2
    /\ cacheFiles # EmptyMap
    /\ Len(result.errors) = 1

(***************************************************************************)
(* C3.  No record's failure aborts the loop: sync_provider never raises    *)
(* out of the loop, and a call that fetched the listing ends with every    *)
(* record processed, one error message per skipped record, and the         *)
(* publish step done.                                                      *)
(***************************************************************************)
C3_RecordFailureNeverAbortsTheCall ==
    /\ pc # "raised"
    /\ (pc = "done" /\ fetched) =>
          /\ idx = Len(emojis) + 1
          /\ Len(result.errors) = result.skipped
          /\ result.synced + result.cached + result.skipped = result.total_emojis

(***************************************************************************)
(* C4.  When force or clean_on_build is set and the fetch succeeded, the   *)
(* cache is empty before the first record is processed, and when the call  *)
(* ends no record was counted as cached and a download was attempted for   *)
(* every record that has a URL.                                            *)
(***************************************************************************)
C4_CleanedRunAttemptsEveryRecord ==
    (fetched /\ (force \/ clean_on_build)) =>
        /\ (pc = "loop" /\ idx = 1) =>
              (metadata = EmptyMap /\ cacheFiles = EmptyMap)
        /\ result.cached = 0
        /\ pc \in {"done", "raised"} => attempts = NamesWithUrl(emojis)

(***************************************************************************)
(* C5.  After sync_provider returned following a successful fetch, every   *)
(* file of the cache directory other than .metadata.json has a copy of     *)
(* the same name and content in the published directory, and               *)
(* .metadata.json is never there.                                          *)
(***************************************************************************)
C5_PublishedDirectoryMirrorsCache ==
    /\ MetaName \notin DOMAIN iconFiles
    /\ (pc = "done" /\ fetched) =>
          \A fn \in DOMAIN cacheFiles :
              fn \in DOMAIN iconFiles /\ iconFiles[fn] = cacheFiles[fn]

\* a call that downloaded one record and found another in the cache has
\* returned, and the metadata file is in the cache directory
C5_WitnessNewAndCachedPublished ==
    /\ pc = "done"
    /\ fetched
    /\ result.synced >= 1
    /\ result.cached >= 1
    /\ metaDisk.exists
    /\ \A fn \in DOMAIN cacheFiles : fn \in DOMAIN iconFiles

(***************************************************************************)
(* C6.  After a run in which every record was downloaded successfully,     *)
(* every record of the fetched set, each alias of the listing whose        *)
(* target is an emoji of the listing included under its own name, has a    *)
(* file <name>.<ext> with the downloaded body in the cache directory and   *)
(* in the published directory and a cache entry of its own; an alias and   *)
(* its target are two files with the same content.                         *)
(***************************************************************************)
C6_EveryRecordStoredUnderItsOwnName ==
    (pc = "done" /\ fetched /\ ~remoteChanged /\ result.synced = result.total_emojis) =>
        /\ \A i, j \in 1..Len(remote) :
              (remote[i][2][1] = "alias" /\ remote[i][2][2] = remote[j][1]
                   /\ remote[j][2][1] = "url")
              => \E k \in 1..Len(emojis) :
                     emojis[k].name = remote[i][1] /\ emojis[k].url = remote[j][2][2]
        /\ \A k \in 1..Len(emojis) :
              LET e == emojis[k]
                  path == GetCachedPath(e)
              IN  /\ path[1] = e.name
                  /\ path \in DOMAIN cacheFiles
                  /\ cacheFiles[path] = Served(e.url, version)
                  /\ path \in DOMAIN iconFiles
                  /\ iconFiles[path] = Served(e.url, version)
                  /\ e.name \in DOMAIN metadata
                  /\ metadata[e.name].url = e.url
        /\ \A k, l \in 1..Len(emojis) :
              (k # l /\ emojis[k].url = emojis[l].url) =>
                  /\ GetCachedPath(emojis[k]) # GetCachedPath(emojis[l])
                  /\ cacheFiles[GetCachedPath(emojis[k])] = cacheFiles[GetCachedPath(emojis[l])]

\* a run downloaded an emoji and its alias
C6_WitnessAliasAndTargetStored ==
    /\ pc = "done"
    /\ fetched
    /\ ~remoteChanged
    /\ result.synced = 2
    /\ result.total_emojis = 2
    /\ emojis[1].url = emojis[2].url
    /\ \E i \in 1..Len(remote) : remote[i][2][1] = "alias"

(***************************************************************************)
(* SpecCorrupt: the sync manager working on a namespace whose metadata     *)
(* file was left corrupt, next to the asset files of earlier runs.         *)
(***************************************************************************)
InitCorrupt ==
    /\ ttl_hours \in 1..MaxTtl
    /\ clean_on_build = FALSE
    /\ now = 0
    /\ remote \in Listings
    /\ version = "v1"
    /\ remoteChanged = FALSE
    /\ cacheFiles \in {EmptyMap,
                       [fn \in {GetCachedPath(FromUrl(n, u)) : n \in Names, u \in Urls}
                           |-> Served(UrlPng, "v1")]}
    /\ metaDisk \in {CorruptMetaFile, UndecodableMetaFile}
    /\ iconFiles = EmptyMap
    /\ staged = 0
    /\ metadata = EmptyMap
    /\ AuxIdle
    /\ CallIdle

NextCorrupt ==
    \/ Next
    \/ \E f \in BOOLEAN : SyncOpenFailed(f, FALSE)

SpecCorrupt == InitCorrupt /\ [][NextCorrupt]_vars

(***************************************************************************)
(* C14.  Opening the cache on a corrupt metadata file does not fail: the   *)
(* table starts empty, and in the sync that follows no record is counted   *)
(* as cached: every record the loop comes to is downloaded again, all of   *)
(* them when the call returns.                                             *)
(***************************************************************************)
C14_CorruptMetadataStartsEmpty ==
    /\ ~(pc = "raised" /\ ~fetched)
    /\ (runs = 1 /\ fetched) =>
        /\ (pc = "loop" /\ metaDisk.corrupt) => metadata = EmptyMap
        /\ result.cached = 0
        /\ Len(attempts) <= Len(NamesWithUrl(emojis))
        /\ attempts = SubSeq(NamesWithUrl(emojis), 1, Len(attempts))
        /\ pc = "done" => attempts = NamesWithUrl(emojis)
        /\ \A n \in DOMAIN metadata : \E k \in 1..Len(attempts) : attempts[k] = n

(***************************************************************************)
(* SpecPath: the two extension computations, applied to one record.        *)
(***************************************************************************)
\* the records SpecPath draws: every URL of at most MaxUrlLen tokens or none,
\* every format or none
PathProbes ==
    {Emoji("a", u, NoAlias, f) :
        u \in SeqsUpTo(UrlTokens, MaxUrlLen) \cup {NoUrl},
        f \in Formats \cup {NoFormat}}

InitPath ==
    /\ probe \in PathProbes
    /\ extCache = ""
    /\ extFile = ""
    /\ cacheOp = NoOp
    /\ top = NoTop
    /\ call = NoCall
    /\ ttl_hours = MaxTtl
    /\ clean_on_build = FALSE
    /\ now = 0
    /\ remote = <<>>
    /\ version = "v1"
    /\ remoteChanged = FALSE
    /\ cacheFiles = EmptyMap
    /\ metaDisk = NoMetaFile
    /\ iconFiles = EmptyMap
    /\ staged = 0
    /\ metadata = EmptyMap
    /\ CallIdle

\* cache._get_cached_path(probe)
PathCached ==
    /\ extCache = ""
    /\ extCache' = GetCachedPath(probe)[2]
    /\ UNCHANGED <<cfgVars, now, worldVars, diskVars, callVars, probe, extFile, cacheOp, top, call>>

\* probe.get_file_extension()
PathFile ==
    /\ extFile = ""
    /\ extFile' = GetFileExtension(probe)
    /\ UNCHANGED <<cfgVars, now, worldVars, diskVars, callVars, probe, extCache, cacheOp, top, call>>

NextPath == PathCached \/ PathFile

SpecPath == InitPath /\ [][NextPath]_vars

(***************************************************************************)
(* SpecCache: the operations of one EmojiCache object on a namespace       *)
(* directory found in an arbitrary state.                                  *)
(***************************************************************************)
\* the records given to the cache: "a" under two URLs (cache paths a.png
\* and a.svg), "b" under one
CacheProbes == {FromUrl("a", UrlPng), FromUrl("a", UrlBare), FromUrl("b", UrlPng)}

\* all functions from a subset of S to V
Maps(S, V) == UNION {[D -> V] : D \in SUBSET S}

\* the metadata tables found on disk: a row with or without cached_at
FoundTables ==
    Maps(Names, {[url |-> UrlPng, format |-> "png", size_bytes |-> 1, cached_at |-> c] :
                    c \in {NoTime, 0}})

InitCache ==
    /\ ttl_hours \in 0..MaxTtl
    /\ clean_on_build = FALSE
    /\ now = 0
    /\ remote = <<>>
    /\ version = "v1"
    /\ remoteChanged = FALSE
    /\ cacheFiles \in Maps({GetCachedPath(e) : e \in CacheProbes}, {Served(UrlPng, "v1")})
    /\ metaDisk \in {NoMetaFile, CorruptMetaFile} \cup {MetaFile(t) : t \in FoundTables}
    /\ iconFiles = EmptyMap
    /\ staged = 0
    /\ metadata = LoadMetadata(metaDisk)
    /\ CallIdle
    /\ AuxIdle

cacheFrame == <<cfgVars, worldVars, iconFiles, staged, pathVars, top, call,
                pc, force, fetched, emojis, idx, result, attempts, progress_callback, calls,
                runs, first, returned>>

\* EmojiCache(config, namespace): the table is loaded from the metadata file
CacheOpen ==
    /\ metadata' = LoadMetadata(metaDisk)
    /\ cacheOp' = CacheOp("open", NoProbe, NoOp.body, 0, FALSE, FALSE)
    /\ UNCHANGED <<now, cacheFiles, metaDisk, cacheFrame>>

\* cache.is_cached(emoji)
CacheIsCached(emoji) ==
    /\ cacheOp' = CacheOp("is_cached", emoji, NoOp.body, 0,
                           IsCached(metadata, cacheFiles, emoji, now, ttl_hours), FALSE)
    /\ UNCHANGED <<now, metadata, cacheFiles, metaDisk, cacheFrame>>

\* cache.store(emoji, file_path, size_bytes), the staged file holding body
CacheStore(emoji, body, size_bytes) ==
    /\ LET kept == Store(metadata, cacheFiles, emoji, body, size_bytes, now)
       IN  /\ metadata' = kept.metadata
           /\ cacheFiles' = kept.files
           /\ metaDisk' = kept.disk
    /\ cacheOp' = CacheOp("store", emoji, body, size_bytes, FALSE,
                           emoji.name \in DOMAIN metadata)
    /\ UNCHANGED <<now, cacheFrame>>

\* cache.clean()
CacheClean ==
    /\ LET cleaned == Clean(metadata, cacheFiles)
       IN  /\ metadata' = cleaned.metadata
           /\ cacheFiles' = cleaned.files
           /\ metaDisk' = cleaned.disk
           /\ cacheOp' = [CacheOp("clean", NoProbe, NoOp.body, 0, FALSE, FALSE)
                             EXCEPT !.count = cleaned.count]
    /\ UNCHANGED <<now, cacheFrame>>

\* cache.clean_stale()
CacheCleanStale ==
    /\ \E pick \in FirstListed(metadata, cacheFiles, now, ttl_hours) :
          LET swept == CleanStale(metadata, cacheFiles, metaDisk, now, ttl_hours, pick)
          IN  /\ metadata' = swept.metadata
              /\ cacheFiles' = swept.files
              /\ metaDisk' = swept.disk
              /\ cacheOp' = [CacheOp("clean_stale", NoProbe, NoOp.body, 0, FALSE, FALSE)
                                EXCEPT !.count = swept.count]
    /\ UNCHANGED <<now, cacheFrame>>

\* cache.get_stats()
CacheGetStats ==
    /\ LET stats == GetStats(cacheFiles, metaDisk)
       IN  cacheOp' = [CacheOp("get_stats", NoProbe, NoOp.body, stats.total_size_bytes,
                               FALSE, FALSE)
                         EXCEPT !.count = stats.total_files]
    /\ UNCHANGED <<now, metadata, cacheFiles, metaDisk, cacheFrame>>

\* an hour passes between two operations
CacheTick ==
    /\ now < MaxTime
    /\ now' = now + 1
    /\ cacheOp' = NoOp
    /\ UNCHANGED <<metadata, cacheFiles, metaDisk, cacheFrame>>

NextCache ==
    \/ CacheOpen
    \/ \E e \in CacheProbes : CacheIsCached(e)
    \/ \E e \in CacheProbes, v \in Versions, size_bytes \in {1, SizeLimit} :
            CacheStore(e, Served(e.url, v), size_bytes)
    \/ CacheClean
    \/ CacheCleanStale
    \/ CacheGetStats
    \/ CacheTick

SpecCache == InitCache /\ [][NextCache]_vars

(***************************************************************************)
(* SpecTop: the loop over the enabled providers, in the plugin             *)
(* (on_config, on_pre_build) and in the CLI (sync).  A provider is its     *)
(* type, whether its token variable and its guild-id variable are set, and *)
(* what sync_provider does for it: return without errors, return with      *)
(* errors, or raise.                                                       *)
(***************************************************************************)
MaxProviders == 2

ProviderConfigs ==
    [type : {"slack"}, token : BOOLEAN, guild : {TRUE},
     outcome : {"ok", "errors", "raise"}]
    \cup [type : {"discord"}, token : BOOLEAN, guild : BOOLEAN,
          outcome : {"ok", "errors", "raise"}]

\* providers/__init__.py PROVIDER_REGISTRY: the types with an implementation
ProviderRegistry == {"slack", "discord"}

\* config.py validate_environment: some enabled provider's token is unset
MissingEnvironment(providers) ==
    \E k \in 1..Len(providers) : ~providers[k].token

\* create_provider / the provider constructors raise ProviderError
CtorFails(p) ==
    \/ ~p.token
    \/ p.type = "discord" /\ ~p.guild

\* len(result.errors) of the result sync_provider returns
ErrorsOf(p) == IF p.outcome = "errors" THEN 2 ELSE 0

InitTop ==
    /\ top \in [entry : {"plugin", "cli"}, fail_on_error : BOOLEAN,
                 providers : [1..MaxProviders -> ProviderConfigs], pc : {"idle"},
                 i : {1}, instantiated : {{}}, synced : {{}}, total_errors : {0}]
    /\ probe = NoProbe
    /\ extCache = ""
    /\ extFile = ""
    /\ cacheOp = NoOp
    /\ call = NoCall
    /\ ttl_hours = MaxTtl
    /\ clean_on_build = FALSE
    /\ now = 0
    /\ remote = <<>>
    /\ version = "v1"
    /\ remoteChanged = FALSE
    /\ cacheFiles = EmptyMap
    /\ metaDisk = NoMetaFile
    /\ iconFiles = EmptyMap
    /\ staged = 0
    /\ metadata = EmptyMap
    /\ CallIdle

topFrame == <<cfgVars, now, worldVars, diskVars, callVars, pathVars, cacheOp, call>>

\* plugin.py on_config lines 85-100 and on_pre_build lines 115-116;
\* cli.py sync lines 58-65: the environment is validated before the loop
TopValidate ==
    /\ top.pc = "idle"
    /\ top' = [top EXCEPT !.pc =
                  IF ~MissingEnvironment(top.providers) THEN "loop"
                  ELSE IF top.entry = "cli" THEN "exit"
                  ELSE IF top.fail_on_error THEN "raised"
                  ELSE "done"]
    /\ UNCHANGED topFrame

\* plugin.py on_pre_build lines 121-160: one iteration
PluginProvider ==
    /\ top.entry = "plugin"
    /\ top.pc = "loop"
    /\ top.i <= Len(top.providers)
    /\ LET p == top.providers[top.i]
           made == [top EXCEPT !.instantiated =
                       IF p.type \in ProviderRegistry THEN @ \cup {top.i} ELSE @]
       IN  top' =
             IF p.type \notin ProviderRegistry \/ CtorFails(p) \/ p.outcome = "raise"
             THEN IF top.fail_on_error
                  THEN [made EXCEPT !.pc = "raised"]
                  ELSE [made EXCEPT !.i = @ + 1]
             ELSE [made EXCEPT !.i = @ + 1, !.synced = @ \cup {top.i}]
    /\ UNCHANGED topFrame

\* cli.py sync lines 86-132: one iteration (dry_run off)
CliProvider ==
    /\ top.entry = "cli"
    /\ top.pc = "loop"
    /\ top.i <= Len(top.providers)
    /\ LET p == top.providers[top.i]
           made == [top EXCEPT !.instantiated = @ \cup {top.i}]
       IN  top' =
             IF p.type # "slack"
             THEN [top EXCEPT !.i = @ + 1]
             ELSE IF CtorFails(p)
             THEN [made EXCEPT !.i = @ + 1, !.total_errors = @ + 1]
             ELSE IF p.outcome = "raise"
             THEN [made EXCEPT !.pc = "raised"]
             ELSE [made EXCEPT !.i = @ + 1, !.synced = @ \cup {top.i},
                               !.total_errors = @ + ErrorsOf(p)]
    /\ UNCHANGED topFrame

\* plugin.py line 162, cli.py line 134: the loop is over
TopFinish ==
    /\ top.pc = "loop"
    /\ top.i > Len(top.providers)
    /\ top' = [top EXCEPT !.pc = "done"]
    /\ UNCHANGED topFrame

NextTop ==
    \/ TopValidate
    \/ PluginProvider
    \/ CliProvider
    \/ TopFinish

SpecTop == InitTop /\ [][NextTop]_vars

\* the errors the providers of a run have, one per provider that cannot be
\* constructed or whose sync raises, and those of each returned result
RECURSIVE ErrorsUpTo(_, _)
ErrorsUpTo(providers, k) ==
    IF k = 0 THEN 0
    ELSE ErrorsUpTo(providers, k - 1) +
         (IF CtorFails(providers[k]) \/ providers[k].outcome = "raise"
          THEN 1 ELSE ErrorsOf(providers[k]))

(***************************************************************************)
(* C7.  When the top-level sync (plugin or CLI) has ended, every enabled   *)
(* provider that can be constructed and whose sync returns has been        *)
(* synced, whatever happened to the other providers, and the CLI's error   *)
(* total is the sum of the errors of all providers.                        *)
(***************************************************************************)
C7_EveryEnabledProviderIsSynced ==
    top.pc \in {"done", "raised", "exit"} =>
        /\ \A k \in 1..Len(top.providers) :
              (~CtorFails(top.providers[k]) /\ top.providers[k].outcome # "raise")
                  => k \in top.synced
        /\ top.entry = "cli" =>
              top.total_errors = ErrorsUpTo(top.providers, Len(top.providers))

(***************************************************************************)
(* C8.  is_cached(record) is true exactly when record.name has a metadata  *)
(* row, the file at the record's cache path exists, the row has a          *)
(* cached_at, and now - cached_at < TTL; an age equal to the TTL is stale. *)
(***************************************************************************)
C8_IsCachedExactlyWhenFourChecksPass ==
    cacheOp.op = "is_cached" =>
        LET e == cacheOp.emoji
        IN  cacheOp.ret <=>
                /\ e.name \in DOMAIN metadata
                /\ GetCachedPath(e) \in DOMAIN cacheFiles
                /\ metadata[e.name].cached_at # NoTime
                /\ now - metadata[e.name].cached_at < ttl_hours

\* is_cached answered false for a row with a file whose age is the TTL
C8_WitnessAgeEqualsTtl ==
    /\ cacheOp.op = "is_cached"
    /\ ~cacheOp.ret
    /\ ttl_hours > 0
    /\ cacheOp.emoji.name \in DOMAIN metadata
    /\ GetCachedPath(cacheOp.emoji) \in DOMAIN cacheFiles
    /\ metadata[cacheOp.emoji.name].cached_at # NoTime
    /\ now - metadata[cacheOp.emoji.name].cached_at = ttl_hours

(***************************************************************************)
(* C10.  After store(record, staged_file, size_bytes) the file at the      *)
(* record's cache path has the staged file's content, the row of           *)
(* record.name is {url, format, size_bytes, cached_at = now} in memory and *)
(* in the metadata file, the rows of the other names are as before, and    *)
(* is_cached(record) is true when TTL > 0.                                 *)
(***************************************************************************)
C10_StoreCommitsFileAndRow ==
    [][cacheOp'.op = "store" =>
        LET e == cacheOp'.emoji
        IN  /\ GetCachedPath(e) \in DOMAIN cacheFiles'
            /\ cacheFiles'[GetCachedPath(e)] = cacheOp'.body
            /\ DOMAIN metadata' = (DOMAIN metadata) \cup {e.name}
            /\ metadata'[e.name] = [url |-> e.url, format |-> e.format,
                                    size_bytes |-> cacheOp'.size, cached_at |-> now']
            /\ \A n \in (DOMAIN metadata) \ {e.name} : metadata'[n] = metadata[n]
            /\ metaDisk'.exists /\ ~metaDisk'.corrupt /\ metaDisk'.table = metadata'
            /\ (ttl_hours > 0 => IsCached(metadata', cacheFiles', e, now', ttl_hours))
    ]_vars

\* a store replaced the row of its name while another name has a row
C10_WitnessRowReplaced ==
    /\ cacheOp.op = "store"
    /\ cacheOp.had
    /\ Cardinality(DOMAIN metadata) = 2
    /\ ttl_hours > 0
    /\ IsCached(metadata, cacheFiles, cacheOp.emoji, now, ttl_hours)

(***************************************************************************)
(* C11.  From any cache state clean() deletes every asset file, leaves the *)
(* metadata file present with an empty table, in memory and on disk, and   *)
(* returns the number of files it deleted; afterwards is_cached is false   *)
(* for every record.                                                       *)
(***************************************************************************)
C11_CleanEmptiesTheNamespace ==
    [][cacheOp'.op = "clean" =>
        /\ cacheFiles' = EmptyMap
        /\ metadata' = EmptyMap
        /\ metaDisk'.exists /\ ~metaDisk'.corrupt /\ metaDisk'.table = EmptyMap
        /\ cacheOp'.count = Cardinality(DOMAIN cacheFiles)
        /\ \A e \in CacheProbes : ~IsCached(metadata', cacheFiles', e, now', ttl_hours)
    ]_vars

\* clean() returned 2 or more and left an empty namespace with its
\* metadata file
C11_WitnessCleanedSeveralFiles ==
    /\ cacheOp.op = "clean"
    /\ cacheOp.count >= 2
    /\ cacheFiles = EmptyMap
    /\ metaDisk = MetaFile(EmptyMap)

(***************************************************************************)
(* C12.  clean_stale() removes every metadata row whose cached_at is       *)
(* missing or whose age is >= TTL, together with the asset file whose base *)
(* name is the row's name; every fresh row and its files stay as they      *)
(* are; the return value is the number of files removed.                   *)
(***************************************************************************)
C12_CleanStaleRemovesStaleRowsAndFiles ==
    [][cacheOp'.op = "clean_stale" =>
        LET stale == StaleNames(metadata, now, ttl_hours)
        IN  /\ \A n \in stale :
                  /\ n \notin DOMAIN metadata'
                  /\ WithStem(cacheFiles', n) = {}
            /\ \A n \in (DOMAIN metadata) \ stale :
                  /\ n \in DOMAIN metadata'
                  /\ metadata'[n] = metadata[n]
                  /\ \A fn \in WithStem(cacheFiles, n) :
                        fn \in DOMAIN cacheFiles' /\ cacheFiles'[fn] = cacheFiles[fn]
            /\ cacheOp'.count =
                  Cardinality(DOMAIN cacheFiles) - Cardinality(DOMAIN cacheFiles')
    ]_vars

(***************************************************************************)
(* C13.  In every cache state, a cache whose metadata file has not been    *)
(* written included, get_stats() reports total_files = the number of asset *)
(* files of the namespace directory and total_size_bytes = the sum of      *)
(* their sizes.                                                            *)
(***************************************************************************)
C13_StatsCountAssetFiles ==
    cacheOp.op = "get_stats" =>
        /\ cacheOp.count = Cardinality(DOMAIN cacheFiles)
        /\ cacheOp.size = SumSizes(cacheFiles, DOMAIN cacheFiles)

(***************************************************************************)
(* SpecAlias: AbstractEmojiProvider.resolve_aliases applied once to a      *)
(* mapping: entries with URLs, and a chain of aliases that ends in an      *)
(* entry with a URL, in a missing name, in its own head or in a            *)
(* self-alias, listed head first or head last.                             *)
(***************************************************************************)
\* everything but call at rest
RestIdle ==
    /\ ttl_hours = MaxTtl
    /\ clean_on_build = FALSE
    /\ now = 0
    /\ remote = <<>>
    /\ version = "v1"
    /\ remoteChanged = FALSE
    /\ cacheFiles = EmptyMap
    /\ metaDisk = NoMetaFile
    /\ iconFiles = EmptyMap
    /\ staged = 0
    /\ metadata = EmptyMap
    /\ CallIdle
    /\ probe = NoProbe
    /\ extCache = ""
    /\ extFile = ""
    /\ cacheOp = NoOp
    /\ top = NoTop

callFrame == <<cfgVars, now, worldVars, diskVars, callVars, pathVars, cacheOp, top>>

\* the longest chain of aliases tried
MaxChain == 12

\* names of the aliases of a chain
LinkNames == <<"l01", "l02", "l03", "l04", "l05", "l06", "l07", "l08", "l09", "l10",
               "l11", "l12", "l13", "l14", "l15", "l16">>

ChainTails == {"concrete", "missing", "cycle", "self"}

\* where the last alias of a chain of n points
TailTarget(n, tail) ==
    CASE tail = "concrete" -> "a"
      [] tail = "missing"  -> MissingName
      [] tail = "cycle"    -> LinkNames[1]
      [] tail = "self"     -> LinkNames[n]

\* the aliases l01 -> l02 -> ... -> l<n> -> tail target, as from_alias makes them
ChainOf(n, tail) ==
    [i \in 1..n |-> FromAlias(LinkNames[i],
                              IF i < n THEN LinkNames[i + 1] ELSE TailTarget(n, tail))]

Reverse(seq) == [i \in 1..Len(seq) |-> seq[Len(seq) + 1 - i]]

\* mappings without aliases: up to two entries, in either order
PlainMappings ==
    {<<>>}
    \cup { <<FromUrl(n, u)>> : n \in Names, u \in Urls }
    \cup { <<FromUrl("a", u), FromUrl("b", w)>> : u \in Urls, w \in Urls }
    \cup { <<FromUrl("b", u), FromUrl("a", w)>> : u \in Urls, w \in Urls }

\* mappings with a chain: the entry "a" with a URL after the aliases
ChainMappings ==
    { (IF headFirst THEN ChainOf(n, tail) ELSE Reverse(ChainOf(n, tail)))
          \o <<FromUrl("a", u)>> :
      n \in 1..MaxChain, tail \in ChainTails, headFirst \in BOOLEAN, u \in Urls }

AliasInputs == PlainMappings \cup ChainMappings

InitAlias ==
    /\ call \in [name : {"resolve_aliases"}, emojis : AliasInputs, done : {FALSE},
               out : {<<>>}]
    /\ RestIdle

\* resolved = provider.resolve_aliases(emojis)
AliasResolve ==
    /\ call.name = "resolve_aliases"
    /\ ~call.done
    /\ call' = [call EXCEPT !.done = TRUE, !.out = ResolveAliases(call.emojis)]
    /\ UNCHANGED callFrame

NextAlias == AliasResolve

SpecAlias == InitAlias /\ [][NextAlias]_vars

\* the name a chain of aliases ends in, followed without a bound on its
\* length: a name with a URL, a name the mapping does not have, or NoAlias
\* when the chain runs into a cycle
RECURSIVE ChainEnd(_, _, _)
ChainEnd(mapping, n, fuel) ==
    IF n \notin KeysOf(mapping) THEN n
    ELSE IF ~IsAlias(Lookup(mapping, n)) THEN n
    ELSE IF fuel = 0 THEN NoAlias
    ELSE ChainEnd(mapping, Lookup(mapping, n).alias_of, fuel - 1)

ReachesConcrete(mapping, n) == ChainEnd(mapping, n, Len(mapping)) \in KeysOf(mapping)

\* the number of aliases from n to the end of its chain, n included
RECURSIVE ChainLength(_, _, _)
ChainLength(mapping, n, fuel) ==
    IF n \notin KeysOf(mapping) \/ fuel = 0 THEN 0
    ELSE IF ~IsAlias(Lookup(mapping, n)) THEN 0
    ELSE 1 + ChainLength(mapping, Lookup(mapping, n).alias_of, fuel - 1)

AliasNamesOf(mapping) == {mapping[k].name : k \in {j \in 1..Len(mapping) : IsAlias(mapping[j])}}

\* the entry of the result for alias n carries the URL and format of the
\* entry its chain ends in
ResolvedToEnd(mapping, out, n) ==
    /\ n \in KeysOf(out)
    /\ LET concrete == Lookup(mapping, ChainEnd(mapping, n, Len(mapping)))
       IN  Lookup(out, n) = Emoji(n, concrete.url, NoAlias, concrete.format)

(***************************************************************************)
(* C15.  A mapping without aliases comes back from resolve_aliases as it   *)
(* went in: the same names in the same order, each with its URL and        *)
(* format.                                                                 *)
(***************************************************************************)
C15_NoAliasesIsIdentity ==
    (call.name = "resolve_aliases" /\ call.done /\ AliasNamesOf(call.emojis) = {}) =>
        call.out = call.emojis

\* two entries with different URLs and formats went through
C15_WitnessTwoPlainEntries ==
    /\ call.name = "resolve_aliases"
    /\ call.done
    /\ AliasNamesOf(call.emojis) = {}
    /\ Len(call.emojis) = 2
    /\ call.emojis[1].format # call.emojis[2].format
    /\ call.out = call.emojis

(***************************************************************************)
(* C16.  Every alias whose chain ends in an entry with a URL, however long *)
(* the chain, is in the result under its own name with the URL and format  *)
(* of that entry.                                                          *)
(***************************************************************************)
C16_EveryChainResolves ==
    (call.name = "resolve_aliases" /\ call.done) =>
        \A n \in AliasNamesOf(call.emojis) :
            ReachesConcrete(call.emojis, n) => ResolvedToEnd(call.emojis, call.out, n)

(***************************************************************************)
(* C16, amended.  Every alias whose chain ends in an entry with a URL and  *)
(* is at most max_depth + 1 aliases long is in the result under its own    *)
(* name with the URL and format of that entry.                             *)
(***************************************************************************)
C16_ChainsWithinDepthResolve ==
    (call.name = "resolve_aliases" /\ call.done) =>
        \A n \in AliasNamesOf(call.emojis) :
            (/\ ReachesConcrete(call.emojis, n)
             /\ ChainLength(call.emojis, n, Len(call.emojis)) <= MaxAliasDepth + 1)
                => ResolvedToEnd(call.emojis, call.out, n)

\* a chain of max_depth + 1 aliases, listed head first, resolved in full
C16_WitnessLongestChainResolved ==
    /\ call.name = "resolve_aliases"
    /\ call.done
    /\ Len(call.emojis) = MaxAliasDepth + 2
    /\ call.emojis[1].name = LinkNames[1]
    /\ \A n \in AliasNamesOf(call.emojis) : ResolvedToEnd(call.emojis, call.out, n)
    /\ Cardinality(AliasNamesOf(call.emojis)) = MaxAliasDepth + 1

(***************************************************************************)
(* C17.  resolve_aliases returns for every mapping, and an alias whose     *)
(* chain does not end in an entry with a URL (it runs into a cycle, or     *)
(* into a name the mapping does not have) is not in the result; the        *)
(* entries that have a URL are in the result as they were, in their order. *)
(***************************************************************************)
C17_UnresolvableAliasesAreOmitted ==
    (call.name = "resolve_aliases" /\ call.done) =>
        /\ \A n \in AliasNamesOf(call.emojis) :
              ~ReachesConcrete(call.emojis, n) => n \notin KeysOf(call.out)
        /\ \A k \in 1..Len(call.emojis) :
              ~IsAlias(call.emojis[k]) =>
                  /\ call.emojis[k].name \in KeysOf(call.out)
                  /\ Lookup(call.out, call.emojis[k].name) = call.emojis[k]
        /\ KeysOf(call.out) \subseteq KeysOf(call.emojis)

\* a cycle of three aliases was dropped and the entry beside it kept
C17_WitnessCycleDropped ==
    /\ call.name = "resolve_aliases"
    /\ call.done
    /\ Len(call.emojis) = 4
    /\ Cardinality(AliasNamesOf(call.emojis)) = 3
    /\ \A n \in AliasNamesOf(call.emojis) : ChainEnd(call.emojis, n, Len(call.emojis)) = NoAlias
    /\ Len(call.out) = 1

MaxNameLen == 2

NameChars == {"p", "q"}

FilterNames == SeqsUpTo(NameChars, MaxNameLen) \ {<<>>}

\* *, p*, ?q, pq, q
Patterns == { <<"*">>, <<"p", "*">>, <<"?", "q">>, <<"p", "q">>, <<"q">> }

\* a mapping of the names in ns, in some order
RECURSIVE Listed(_)
Listed(ns) ==
    IF ns = {} THEN <<>>
    ELSE LET n == CHOOSE x \in ns : TRUE
         IN  <<FromUrl(n, UrlPng)>> \o Listed(ns \ {n})

FilterInputs == { Listed(ns) : ns \in {{}, FilterNames, {<<"p">>, <<"p", "q">>}} }

InitFilter ==
    /\ call \in [name : {"filter_emojis"}, emojis : FilterInputs,
                 include_patterns : SUBSET Patterns, exclude_patterns : SUBSET Patterns,
                 done : {FALSE}, out : {<<>>}]
    /\ RestIdle

\* filtered = provider.filter_emojis(emojis)
FilterApply ==
    /\ call.name = "filter_emojis"
    /\ ~call.done
    /\ call' = [call EXCEPT !.done = TRUE,
                   !.out = FilterEmojis(call.emojis, call.include_patterns,
                                        call.exclude_patterns)]
    /\ UNCHANGED callFrame

NextFilter == FilterApply

SpecFilter == InitFilter /\ [][NextFilter]_vars

\* some pattern of the set matches the name
MatchesAny(n, patterns) == \E pat \in patterns : Fnmatch(n, pat)

\* left is right with some entries left out, the order kept
RECURSIVE IsSubSeq(_, _)
IsSubSeq(left, right) ==
    IF left = <<>> THEN TRUE
    ELSE IF right = <<>> THEN FALSE
    ELSE IF Head(left) = Head(right) THEN IsSubSeq(Tail(left), Tail(right))
    ELSE IsSubSeq(left, Tail(right))

(***************************************************************************)
(* C19.  filter_emojis keeps an entry exactly when its name matches no     *)
(* exclude pattern and, if there are include patterns, matches one of      *)
(* them; a name matching an exclude and an include pattern is left out;    *)
(* the entries kept are unchanged and in their order; without patterns     *)
(* the mapping comes back as it went in.                                   *)
(***************************************************************************)
C19_FilterKeepsExactlyTheAdmitted ==
    (call.name = "filter_emojis" /\ call.done) =>
        /\ IsSubSeq(call.out, call.emojis)
        /\ \A k \in 1..Len(call.emojis) :
              LET e == call.emojis[k]
              IN  (\E j \in 1..Len(call.out) : call.out[j] = e) <=>
                      /\ ~MatchesAny(e.name, call.exclude_patterns)
                      /\ (call.include_patterns = {}
                            \/ MatchesAny(e.name, call.include_patterns))
        /\ \A k \in 1..Len(call.emojis) :
              (/\ MatchesAny(call.emojis[k].name, call.exclude_patterns)
               /\ MatchesAny(call.emojis[k].name, call.include_patterns))
                  => \A j \in 1..Len(call.out) : call.out[j].name # call.emojis[k].name
        /\ (call.include_patterns = {} /\ call.exclude_patterns = {}) =>
              call.out = call.emojis

\* include p*, exclude ?q: pq matches both and is left out, p is kept
C19_WitnessExcludeWinsOverInclude ==
    /\ call.name = "filter_emojis"
    /\ call.done
    /\ call.include_patterns = {<<"p", "*">>}
    /\ call.exclude_patterns = {<<"?", "q">>}
    /\ Len(call.emojis) = Cardinality(FilterNames)
    /\ {call.out[j].name : j \in 1..Len(call.out)} = {<<"p">>, <<"p", "p">>}

(***************************************************************************)
(* SpecDownload: one call of EmojiDownloader.download, chunk by chunk,     *)
(* with its temporary file.                                                *)
(***************************************************************************)
\* the most chunks a response is streamed in
MaxChunks == 3

\* len(chunk): iter_content yields chunks of up to 8192 bytes
ChunkSizes == {1, SizeLimit, SizeLimit + 1}

\* content-length: absent, not a number, zero, one, the limit, over the limit
DownloadResponses ==
    [net : BOOLEAN,
     clen : {NoHeader, BadHeader, 0, 1, SizeLimit, SizeLimit + 1},
     chunks : SeqsUpTo(ChunkSizes, MaxChunks),
     broken : BOOLEAN,
     image : BOOLEAN]

\* the call before its first statement; temp tells whether the temporary
\* file is on disk, made whether it was ever created, and written how many
\* bytes it holds
InitDownload ==
    /\ call \in [name : {"download"}, emoji : {FromUrl("a", UrlPng)},
                 resp : DownloadResponses, pc : {"start"}, k : {0}, total_size : {0},
                 temp : {FALSE}, made : {FALSE}, written : {0}, kind : {"none"},
                 msg : {""}]
    /\ RestIdle

\* the call leaves with an exception
Raise(c, kind, msg, temp) ==
    [c EXCEPT !.pc = "raised", !.kind = kind, !.msg = msg, !.temp = temp]

\* lines 54-78: the request, the content-length check, the temporary file
DownloadRequest ==
    /\ call.name = "download"
    /\ call.pc = "start"
    /\ call' =
         IF ~call.resp.net THEN Raise(call, "DownloadError", "Failed to download", FALSE)
         ELSE IF call.resp.clen = BadHeader
              THEN Raise(call, "ValueError", "invalid literal for int()", FALSE)
         ELSE IF DeclaredTooLarge(call.resp.clen)
              THEN Raise(call, "DownloadError", "too large", FALSE)
         ELSE [call EXCEPT !.pc = "streaming", !.temp = TRUE, !.made = TRUE]
    /\ UNCHANGED callFrame

\* lines 81-91: one chunk of the loop; over the limit the file is unlinked
\* and the DownloadError, caught and wrapped at 95-99, leaves the call
DownloadChunk ==
    /\ call.name = "download"
    /\ call.pc = "streaming"
    /\ call.k < Len(call.resp.chunks)
    /\ LET chunk == call.resp.chunks[call.k + 1]
           counted == [call EXCEPT !.k = @ + 1, !.total_size = @ + chunk]
       IN  call' =
             IF Exceeds(counted.total_size)
             THEN [Raise(counted, "DownloadError", "Error downloading", FALSE)
                      EXCEPT !.written = 0]
             ELSE [counted EXCEPT !.written = @ + chunk]
    /\ UNCHANGED callFrame

\* lines 93-103: the stream ends or fails, the file is closed and validated
DownloadFinish ==
    /\ call.name = "download"
    /\ call.pc = "streaming"
    /\ call.k = Len(call.resp.chunks)
    /\ call' =
         IF call.resp.broken
         THEN [Raise(call, "DownloadError", "Error downloading", FALSE) EXCEPT !.written = 0]
         ELSE IF ~call.resp.image
              THEN Raise(call, "DownloadError", "Invalid image file", TRUE)
         ELSE [call EXCEPT !.pc = "returned", !.kind = "ok"]
    /\ UNCHANGED callFrame

NextDownload ==
    \/ DownloadRequest
    \/ DownloadChunk
    \/ DownloadFinish

SpecDownload == InitDownload /\ [][NextDownload]_vars

\* the bytes of the first k chunks
RECURSIVE BytesUpTo(_, _)
BytesUpTo(chunks, k) == IF k = 0 THEN 0 ELSE BytesUpTo(chunks, k - 1) + chunks[k]

\* the chunks at which the cumulative byte count is over the ceiling
Crossings(chunks) == {k \in 1..Len(chunks) : BytesUpTo(chunks, k) > MaxSizeKb * 1024}

\* the call is over
DownloadOver == call.name = "download" /\ call.pc \in {"raised", "returned"}

\* the call came to its streaming loop
Streamed ==
    /\ call.resp.net
    /\ call.resp.clen # BadHeader
    /\ call.resp.clen = NoHeader \/ call.resp.clen <= MaxSizeKb * 1024

(***************************************************************************)
(* C20.  A download that streams more than max_size_kb * 1024 bytes ends   *)
(* in DownloadError at the first chunk that takes the count over the       *)
(* ceiling, whatever the content-length header said, and its temporary     *)
(* file is gone; the file never holds more than the ceiling.               *)
(***************************************************************************)
C20_OversizeStreamFailsAndLeavesNoFile ==
    call.name = "download" =>
        /\ call.written <= MaxSizeKb * 1024
        /\ (DownloadOver /\ Streamed /\ Crossings(call.resp.chunks) # {}) =>
              /\ call.pc = "raised"
              /\ call.kind = "DownloadError"
              /\ call.k \in Crossings(call.resp.chunks)
              /\ \A j \in Crossings(call.resp.chunks) : call.k <= j
              /\ ~call.temp
              /\ call.written = 0

\* content-length said one byte; the second chunk crossed the ceiling
C20_WitnessUnderstatedLength ==
    /\ DownloadOver
    /\ call.resp.clen = 1
    /\ Len(call.resp.chunks) = 3
    /\ call.resp.chunks[1] = MaxSizeKb * 1024
    /\ call.k = 2
    /\ call.kind = "DownloadError"
    /\ ~call.temp

\* the summary Download agrees with the call taken step by step
DownloadAgrees ==
    DownloadOver =>
        LET d == Download(call.emoji, call.resp)
        IN  /\ d.kind = call.kind
            /\ d.staged = call.temp
            /\ d.kind = "ok" => d.size = call.total_size
            /\ d.msg[1] = call.msg

(***************************************************************************)
(* C21.  A response that declares a content-length over max_size_kb * 1024 *)
(* ends the download in DownloadError with no chunk read and no temporary  *)
(* file created.  The declared-length check and the streaming check have   *)
(* the same threshold: a body of exactly max_size_kb * 1024 bytes declared *)
(* as such passes both, and one byte more is rejected by either.           *)
(***************************************************************************)
C21_DeclaredOversizeFailsBeforeTheBody ==
    call.name = "download" =>
        /\ (call.pc # "start" /\ call.resp.net /\ call.resp.clen > MaxSizeKb * 1024) =>
              /\ call.pc = "raised"
              /\ call.kind = "DownloadError"
              /\ call.k = 0
              /\ ~call.made
        /\ (/\ DownloadOver
            /\ call.resp.net
            /\ call.resp.clen = MaxSizeKb * 1024
            /\ BytesUpTo(call.resp.chunks, Len(call.resp.chunks)) = MaxSizeKb * 1024
            /\ ~call.resp.broken
            /\ call.resp.image) =>
              call.pc = "returned" /\ call.total_size = MaxSizeKb * 1024
        /\ (/\ DownloadOver
            /\ call.resp.net
            /\ call.resp.clen = NoHeader
            /\ BytesUpTo(call.resp.chunks, Len(call.resp.chunks)) = MaxSizeKb * 1024 + 1) =>
              call.pc = "raised" /\ call.kind = "DownloadError"

\* a response declaring one byte over the ceiling was refused
C21_WitnessDeclaredOneOver ==
    /\ DownloadOver
    /\ call.resp.net
    /\ call.resp.clen = MaxSizeKb * 1024 + 1
    /\ Len(call.resp.chunks) = 1
    /\ call.kind = "DownloadError"
    /\ call.k = 0
    /\ ~call.made

(***************************************************************************)
(* SpecBatch: one call of EmojiDownloader.download_multiple over a list of *)
(* emojis, each with the response its download gets, with and without a    *)
(* progress callback.                                                      *)
(***************************************************************************)
\* the longest list tried
MaxBatch == 3

\* one response for each way a download ends: it succeeds, the request
\* fails, the body is not an image, the content-length is not a number
BatchResponses ==
    { [net |-> TRUE, clen |-> NoHeader, chunks |-> <<1>>, broken |-> FALSE, image |-> TRUE],
      [net |-> FALSE, clen |-> NoHeader, chunks |-> <<1>>, broken |-> FALSE, image |-> TRUE],
      [net |-> TRUE, clen |-> NoHeader, chunks |-> <<1>>, broken |-> FALSE, image |-> FALSE],
      [net |-> TRUE, clen |-> BadHeader, chunks |-> <<1>>, broken |-> FALSE, image |-> TRUE] }

BatchItems == [emoji : {FromUrl(n, UrlPng) : n \in Names}, resp : BatchResponses]

\* faulty variant: a loop that catches nothing
BatchCatchesNothing(kind) == FALSE

\* except DownloadError
BatchCatches(kind) == kind = "DownloadError"

\* the call at its first statement: i counts the items the loop has come
\* to, step tells whether the callback of item i is still to be made,
\* calls lists the callback's calls and results is the map built
InitBatch ==
    /\ call \in [name : {"download_multiple"}, items : SeqsUpTo(BatchItems, MaxBatch),
                 progress_callback : BOOLEAN, pc : {"loop"}, step : {"next"}, i : {0},
                 calls : {<<>>}, results : {EmptyMap}]
    /\ RestIdle

\* lines 139-141: the loop comes to the next item and calls the callback
BatchAnnounce ==
    /\ call.name = "download_multiple"
    /\ call.pc = "loop"
    /\ call.step = "next"
    /\ call.i < Len(call.items)
    /\ LET i == call.i + 1
       IN  call' = [call EXCEPT !.i = i, !.step = "attempt",
                       !.calls = IF call.progress_callback
                                 THEN Append(@, <<call.items[i].emoji.name, i, Len(call.items)>>)
                                 ELSE @]
    /\ UNCHANGED callFrame

\* lines 143-147: the download of item i
BatchAttempt ==
    /\ call.name = "download_multiple"
    /\ call.pc = "loop"
    /\ call.step = "attempt"
    /\ LET item == call.items[call.i]
           got  == Download(item.emoji, item.resp)
       IN  call' =
             IF got.kind = "ok"
             THEN [call EXCEPT !.step = "next",
                       !.results = Put(@, item.emoji.name, got.size)]
             ELSE IF BatchCatches(got.kind) THEN [call EXCEPT !.step = "next"]
             ELSE [call EXCEPT !.pc = "raised"]
    /\ UNCHANGED callFrame

\* line 149: return results
BatchReturn ==
    /\ call.name = "download_multiple"
    /\ call.pc = "loop"
    /\ call.step = "next"
    /\ call.i = Len(call.items)
    /\ call' = [call EXCEPT !.pc = "returned"]
    /\ UNCHANGED callFrame

NextBatch ==
    \/ BatchAnnounce
    \/ BatchAttempt
    \/ BatchReturn

SpecBatch == InitBatch /\ [][NextBatch]_vars

\* the names of the items whose download succeeds
Succeeding(items) ==
    {items[j].emoji.name :
        j \in {x \in 1..Len(items) : Download(items[x].emoji, items[x].resp).kind = "ok"}}

(***************************************************************************)
(* C22.  download_multiple goes through the list in order; the callback,   *)
(* when given, has been called with (name, i, total) for every item the    *)
(* loop has come to, before that item's download; a DownloadError never    *)
(* ends the call, and the map returned holds exactly the names whose       *)
(* download succeeded.                                                     *)
(***************************************************************************)
C22_BatchSurvivesDownloadErrors ==
    call.name = "download_multiple" =>
        /\ call.calls = IF call.progress_callback
                        THEN [j \in 1..call.i |->
                                 <<call.items[j].emoji.name, j, Len(call.items)>>]
                        ELSE <<>>
        /\ call.pc = "raised" =>
              Download(call.items[call.i].emoji, call.items[call.i].resp).kind
                  \notin {"ok", "DownloadError"}
        /\ (\A j \in 1..Len(call.items) :
               Download(call.items[j].emoji, call.items[j].resp).kind
                   \in {"ok", "DownloadError"}) => call.pc # "raised"
        /\ call.pc = "returned" =>
              /\ call.i = Len(call.items)
              /\ DOMAIN call.results = Succeeding(call.items)

\* of three items the first failed with DownloadError and the other two
\* were downloaded
C22_WitnessFailureInTheMiddleOfABatch ==
    /\ call.name = "download_multiple"
    /\ call.pc = "returned"
    /\ call.progress_callback
    /\ Len(call.items) = 3
    /\ Download(call.items[1].emoji, call.items[1].resp).kind = "DownloadError"
    /\ call.items[2].emoji.name # call.items[1].emoji.name
    /\ call.items[3].emoji.name = call.items[1].emoji.name
    /\ Cardinality(DOMAIN call.results) = 2
    /\ Len(call.calls) = 3

(***************************************************************************)
(* SpecManager: a SyncManager built from the configured options and the    *)
(* requests its downloader then issues.                                    *)
(***************************************************************************)
\* timeout=30 in SyncManager.__init__
ManagerTimeout == 30

\* how far over that the configured download_timeout is tried
MaxExtraTimeout == 1

\* the most requests followed
MaxRequests == 2

\* EmojiOptions.download_timeout, in seconds
TimeoutChoices == 1..(ManagerTimeout + MaxExtraTimeout)

\* before SyncManager(cache_config, emoji_options, icons_dir): the options
\* as configuration loaded them; timeout and max_size_kb_used are the
\* downloader's fields, requests the requests.get calls made with them
InitManager ==
    /\ call \in [name : {"SyncManager"}, download_timeout : TimeoutChoices,
                 max_size_kb : 1..MaxSizeKb, pc : {"new"}, timeout : {0},
                 max_size_kb_used : {0}, requests : {<<>>}]
    /\ RestIdle

\* SyncManager.__init__ lines 34-40: the downloader is constructed
ManagerNew ==
    /\ call.name = "SyncManager"
    /\ call.pc = "new"
    /\ call' = [call EXCEPT !.pc = "ready", !.timeout = ManagerTimeout,
                   !.max_size_kb_used = call.max_size_kb]
    /\ UNCHANGED callFrame

\* EmojiDownloader.download lines 55-59: requests.get(emoji.url,
\* timeout=self.timeout, stream=True)
ManagerDownload(emoji) ==
    /\ call.name = "SyncManager"
    /\ call.pc = "ready"
    /\ Len(call.requests) < MaxRequests
    /\ call' = [call EXCEPT !.requests =
                   Append(@, [url |-> emoji.url, timeout |-> call.timeout])]
    /\ UNCHANGED callFrame

NextManager ==
    \/ ManagerNew
    \/ \E n \in Names, u \in Urls : ManagerDownload(FromUrl(n, u))

SpecManager == InitManager /\ [][NextManager]_vars

(***************************************************************************)
(* C23.  Every download request of a sync carries the configured           *)
(* download_timeout as its timeout, whatever value is configured.          *)
(***************************************************************************)
C23_DownloadsUseConfiguredTimeout ==
    call.name = "SyncManager" =>
        \A k \in 1..Len(call.requests) :
            call.requests[k].timeout = call.download_timeout

(***************************************************************************)
(* SpecFetch: one call of fetch_emojis of the Slack or the Discord         *)
(* provider, for each answer of the remote API: the request fails, or the  *)
(* body is not JSON, a JSON scalar, a JSON list, or a JSON object.         *)
(***************************************************************************)
\* the most entries a Discord listing has
MaxEntries == 2

\* a response body.  shape: "not_json", "scalar", "list" or "object";
\* isok: the object's "ok" member; message: the object has a "message"
\* member; content: "absent" (no "emoji" member), "not_mapping" (the member
\* is not an object), "bad_values" (a value of the mapping, or an entry of
\* the list, is not of the expected type), "good"; listing: Slack's emoji
\* mapping; entries: Discord's list
Body(shape, isok, message, content, listing, entries) ==
    [shape |-> shape, isok |-> isok, message |-> message, content |-> content,
     listing |-> listing, entries |-> entries]

SlackBodies ==
    { Body(sh, FALSE, FALSE, "absent", <<>>, <<>>) : sh \in {"not_json", "scalar", "list"} }
    \cup { Body("object", o, FALSE, c, <<>>, <<>>) :
             o \in BOOLEAN, c \in {"absent", "not_mapping", "bad_values"} }
    \cup { Body("object", o, FALSE, "good", l, <<>>) : o \in BOOLEAN, l \in Listings }

\* an entry of Discord's list: name and id ("" and <<>> when missing, null
\* or empty), animated ("true", "false", "absent")
DiscordEntries ==
    [name : {<<>>, <<"p">>, <<"q">>}, id : {"", "1", "2"},
     animated : {"true", "false", "absent"}]

DiscordBodies ==
    { Body(sh, FALSE, FALSE, "absent", <<>>, <<>>) : sh \in {"not_json", "scalar"} }
    \cup { Body("object", FALSE, m, "absent", <<>>, <<>>) : m \in BOOLEAN }
    \cup { Body("list", FALSE, FALSE, "bad_values", <<>>, <<>>) }
    \cup { Body("list", FALSE, FALSE, "good", <<>>, es) :
             es \in SeqsUpTo(DiscordEntries, MaxEntries) }

\* what a call of fetch_emojis ends in
Fetched(kind, out) == [kind |-> kind, out |-> out]

\* SlackEmojiProvider.fetch_emojis; net tells whether requests.get and
\* raise_for_status went through
SlackFetch(net, body) ==
    IF ~net THEN Fetched("ProviderError", <<>>)
    ELSE IF body.shape = "not_json" THEN Fetched("JSONDecodeError", <<>>)
    ELSE IF body.shape # "object" THEN Fetched("AttributeError", <<>>)
    ELSE IF ~body.isok THEN Fetched("ProviderError", <<>>)
    ELSE IF body.content = "absent" THEN Fetched("ok", FetchEmojis(<<>>))
    ELSE IF body.content # "good" THEN Fetched("AttributeError", <<>>)
    ELSE Fetched("ok", FetchEmojis(body.listing))

\* f"{self.CDN_BASE}/{emoji_id}.{extension}"
DiscordUrl(id, animated) ==
    <<"x", "/", "x", "/", id, ".", IF animated = "true" THEN "gif" ELSE "png">>

\* emojis[name] = record: a name already there keeps its place
PutRecord(mapping, record) ==
    IF record.name \in KeysOf(mapping)
    THEN [k \in 1..Len(mapping) |->
             IF mapping[k].name = record.name THEN record ELSE mapping[k]]
    ELSE Append(mapping, record)

\* the parse loop of DiscordEmojiProvider.fetch_emojis from entry k on
RECURSIVE DiscordParse(_, _, _)
DiscordParse(entries, k, mapping) ==
    IF k > Len(entries) THEN mapping
    ELSE IF entries[k].name = <<>> \/ entries[k].id = ""
         THEN DiscordParse(entries, k + 1, mapping)
    ELSE DiscordParse(entries, k + 1,
            PutRecord(mapping, FromUrl(entries[k].name,
                                       DiscordUrl(entries[k].id, entries[k].animated))))

\* faulty variant: the Discord listing handed on unfiltered
DiscordFetchUnfiltered(net, body, include_patterns, exclude_patterns) ==
    IF net /\ body.shape = "list" /\ body.content = "good"
    THEN Fetched("ok", DiscordParse(body.entries, 1, <<>>))
    ELSE Fetched("ProviderError", <<>>)

\* DiscordEmojiProvider.fetch_emojis
DiscordFetch(net, body, include_patterns, exclude_patterns) ==
    IF ~net THEN Fetched("ProviderError", <<>>)
    ELSE IF body.shape = "not_json" THEN Fetched("JSONDecodeError", <<>>)
    ELSE IF body.shape = "object"
         THEN IF body.message THEN Fetched("ProviderError", <<>>)
              ELSE Fetched("AttributeError", <<>>)
    ELSE IF body.shape = "scalar" THEN Fetched("TypeError", <<>>)
    ELSE IF body.content # "good" THEN Fetched("AttributeError", <<>>)
    ELSE Fetched("ok", FilterEmojis(DiscordParse(body.entries, 1, <<>>),
                                    include_patterns, exclude_patterns))

InitFetch ==
    /\ call \in
         [name : {"fetch_emojis"}, provider : {"slack"}, net : BOOLEAN, body : SlackBodies,
          include_patterns : {{}}, exclude_patterns : {{}}, done : {FALSE},
          got : {Fetched("none", <<>>)}]
         \cup
         [name : {"fetch_emojis"}, provider : {"discord"}, net : BOOLEAN,
          body : DiscordBodies, include_patterns : {{}},
          exclude_patterns : {{}, {<<"p">>}}, done : {FALSE},
          got : {Fetched("none", <<>>)}]
    /\ RestIdle

\* emojis = provider.fetch_emojis() of a Slack provider
FetchSlack ==
    /\ call.name = "fetch_emojis"
    /\ call.provider = "slack"
    /\ ~call.done
    /\ call' = [call EXCEPT !.done = TRUE, !.got = SlackFetch(call.net, call.body)]
    /\ UNCHANGED callFrame

\* emojis = provider.fetch_emojis() of a Discord provider
FetchDiscord ==
    /\ call.name = "fetch_emojis"
    /\ call.provider = "discord"
    /\ ~call.done
    /\ call' = [call EXCEPT !.done = TRUE,
                   !.got = DiscordFetch(call.net, call.body, call.include_patterns,
                                        call.exclude_patterns)]
    /\ UNCHANGED callFrame

NextFetch ==
    \/ FetchSlack
    \/ FetchDiscord

SpecFetch == InitFetch /\ [][NextFetch]_vars

\* the API answered, and said that the request did not succeed
NonSuccess ==
    /\ call.net
    /\ call.body.shape = "object"
    /\ IF call.provider = "slack" THEN ~call.body.isok ELSE call.body.message

\* the API answered with a body that is not JSON or not of the expected shape
Malformed ==
    /\ call.net
    /\ ~NonSuccess
    /\ IF call.provider = "slack"
       THEN call.body.shape # "object" \/ call.body.content \in {"not_mapping", "bad_values"}
       ELSE call.body.shape # "list" \/ call.body.content # "good"

(***************************************************************************)
(* C24.  fetch_emojis of either provider ends in ProviderError, and in no  *)
(* other exception, when the request fails, when the API reports a         *)
(* failure, and when the body is not JSON or not of the expected shape.    *)
(***************************************************************************)
C24_FetchFailsWithProviderErrorOnly ==
    (call.name = "fetch_emojis" /\ call.done) =>
        /\ call.got.kind \in {"ok", "ProviderError"}
        /\ (~call.net \/ NonSuccess \/ Malformed) => call.got.kind = "ProviderError"

\* a Discord listing of well-formed entries was fetched
DiscordListed ==
    /\ call.name = "fetch_emojis"
    /\ call.provider = "discord"
    /\ call.done
    /\ call.net
    /\ call.body.shape = "list"
    /\ call.body.content = "good"

\* the entry has a name and an id, and the provider's filter admits the name
Admitted(entry) ==
    /\ entry.name # <<>>
    /\ entry.id # ""
    /\ ~MatchesAny(entry.name, call.exclude_patterns)
    /\ call.include_patterns = {} \/ MatchesAny(entry.name, call.include_patterns)

\* the record fetch_emojis makes of an entry
RecordOf(entry) ==
    [name |-> entry.name, url |-> DiscordUrl(entry.id, entry.animated),
     alias_of |-> NoAlias, format |-> IF entry.animated = "true" THEN "gif" ELSE "png"]

(***************************************************************************)
(* C25.  Discord's fetch_emojis returns, for every listed entry that has   *)
(* an id and a name and that the filter admits, a record with the URL      *)
(* <CDN>/<id>.gif when the entry is animated and <CDN>/<id>.png otherwise, *)
(* of the matching format; other entries give no record and no error.      *)
(***************************************************************************)
C25_EveryCompleteEntryHasItsRecord ==
    DiscordListed =>
        /\ call.got.kind = "ok"
        /\ \A k \in 1..Len(call.body.entries) :
              Admitted(call.body.entries[k]) =>
                  \E j \in 1..Len(call.got.out) :
                      call.got.out[j] = RecordOf(call.body.entries[k])
        /\ \A j \in 1..Len(call.got.out) :
              \E k \in 1..Len(call.body.entries) :
                  /\ Admitted(call.body.entries[k])
                  /\ call.got.out[j] = RecordOf(call.body.entries[k])

(***************************************************************************)
(* C25, amended.  Discord's fetch_emojis returns one record for every name *)
(* that a listed entry with an id has and that the filter admits: the      *)
(* record of the last such entry of that name, with the URL <CDN>/<id>.gif *)
(* when that entry is animated and <CDN>/<id>.png otherwise, of the        *)
(* matching format; other entries give no record and no error.             *)
(***************************************************************************)
C25_LastEntryOfEachNameHasItsRecord ==
    DiscordListed =>
        /\ call.got.kind = "ok"
        /\ \A k \in 1..Len(call.body.entries) :
              (/\ Admitted(call.body.entries[k])
               /\ \A later \in (k + 1)..Len(call.body.entries) :
                     ~(/\ Admitted(call.body.entries[later])
                       /\ call.body.entries[later].name = call.body.entries[k].name))
                  => \E j \in 1..Len(call.got.out) :
                         call.got.out[j] = RecordOf(call.body.entries[k])
        /\ \A j \in 1..Len(call.got.out) :
              \E k \in 1..Len(call.body.entries) :
                  /\ Admitted(call.body.entries[k])
                  /\ call.got.out[j] = RecordOf(call.body.entries[k])
        /\ \A i, j \in 1..Len(call.got.out) :
              call.got.out[i].name = call.got.out[j].name => i = j

\* an animated entry, and an entry without id that was dropped
C25_WitnessAnimatedKeptIncompleteDropped ==
    /\ DiscordListed
    /\ Len(call.body.entries) = 2
    /\ call.body.entries[1].animated = "true"
    /\ call.body.entries[1].name = <<"q">>
    /\ call.body.entries[2].id = ""
    /\ call.body.entries[2].name = <<"p">>
    /\ Len(call.got.out) = 1
    /\ call.got.out[1].format = "gif"

(***************************************************************************)
(* C26.  Whichever entry point runs the loop, the plugin or the CLI, every *)
(* enabled provider the loop has passed whose type is in the registry has  *)
(* been instantiated, and has been synced when its constructor and its     *)
(* sync return.                                                            *)
(***************************************************************************)
C26_RegisteredTypesAreInstantiatedAndSynced ==
    \A k \in 1..Len(top.providers) :
        (/\ top.pc \in {"loop", "done", "raised"}
         /\ k < top.i
         /\ top.providers[k].type \in ProviderRegistry) =>
            /\ k \in top.instantiated
            /\ (~CtorFails(top.providers[k]) /\ top.providers[k].outcome # "raise")
                  => k \in top.synced

(***************************************************************************)
(* C27.  A result that sync_provider returned after a successful fetch     *)
(* accounts for every record: synced + cached + skipped is the number of   *)
(* fetched records, there is one error message per skipped record, and the *)
(* result is a success exactly when no record was skipped.                 *)
(***************************************************************************)
C27_ReturnedResultAccountsForEveryRecord ==
    (pc = "done" /\ fetched) =>
        /\ result.total_emojis = Len(emojis)
        /\ result.synced + result.cached + result.skipped = result.total_emojis
        /\ Len(result.errors) = result.skipped
        /\ Success(result) <=> result.skipped = 0

\* a second call returned with one record served from the cache and the
\* other skipped with its error message
C27_WitnessCachedAndSkippedInOneResult ==
    /\ pc = "done"
    /\ fetched
    /\ result.cached = 1
    /\ result.skipped = 1
    /\ result.synced = 0
    /\ ~Success(result)

(***************************************************************************)
(* sync_provider called with or without a progress callback, on a cache    *)
(* that is not cleaned at every build.                                     *)
(***************************************************************************)
InitProgress ==
    /\ Init
    /\ ttl_hours = MaxTtl
    /\ ~clean_on_build

\* one response for each way a download ends
ProgressResponses == BatchResponses

NextProgress ==
    \/ \E f \in BOOLEAN, cb \in BOOLEAN : SyncFetchFailed(f, cb)
    \/ \E f \in BOOLEAN, cb \in BOOLEAN : SyncBegin(f, cb)
    \/ \E resp \in ProgressResponses : SyncRecord(resp)
    \/ SyncPublish
    \/ Tick
    \/ RemoteChange

SpecProgress == InitProgress /\ [][NextProgress]_vars

\* the callback's calls for the first n records of the listing
CallsUpTo(n) == [k \in 1..n |-> <<emojis[k].name, k, Len(emojis)>>]

\* the rest of the loop from the frame st, the record at position k being
\* answered by rs[k] if it is downloaded
RECURSIVE RunLoop(_, _, _)
RunLoop(st, cb, rs) ==
    IF st.pc # "loop" \/ st.idx > Len(emojis)
    THEN st
    ELSE RunLoop(SyncIteration(st, cb, rs[st.idx]), cb, rs)

\* what a call leaves behind when its loop ended in the frame st: the result
\* it returns, the cache and the published directory, or the exception and
\* the cache as it was left
Outcome(st) ==
    IF st.pc = "loop"
    THEN [st EXCEPT !.calls = <<>>, !.pc = "done"] @@
         [iconFiles |-> SyncToIcons(st.cacheFiles, st.metaDisk, iconFiles)]
    ELSE [st EXCEPT !.calls = <<>>] @@ [iconFiles |-> iconFiles]

(***************************************************************************)
(* C28.  With a callback, sync_provider calls it once for each record it   *)
(* comes to, in listing order, with (name, i, total), i counting from 1,   *)
(* before the record is looked up in the cache or downloaded; without one  *)
(* nothing is called; and from every state of the loop, whatever the       *)
(* remote answers, the call ends with the same result, cache and published *)
(* directory with a callback as without.                                   *)
(***************************************************************************)
C28_CallbackOncePerRecordAndWithoutEffect ==
    /\ (pc \in {"loop", "done", "raised"} /\ ~fetched) => calls = <<>>
    /\ (pc \in {"loop", "done", "raised"} /\ fetched) =>
          calls = IF progress_callback
                  THEN CallsUpTo(IF pc = "raised" THEN idx ELSE idx - 1)
                  ELSE <<>>
    /\ (pc = "done" /\ fetched) => idx = Len(emojis) + 1
    /\ pc = "loop" =>
          \A rs \in [idx..Len(emojis) -> ProgressResponses] :
              Outcome(RunLoop(Frame, TRUE, rs)) = Outcome(RunLoop(Frame, FALSE, rs))

\* a call with a callback returned after one record was served from the
\* cache and the other was downloaded: the callback was called for both
C28_WitnessCallbackForCachedAndDownloaded ==
    /\ pc = "done"
    /\ fetched
    /\ progress_callback
    /\ result.cached = 1
    /\ result.synced = 1
    /\ Len(calls) = 2
    /\ calls[2][2] = 2

\* the names of the listing, in its iteration order
NamesOf(mapping) == [k \in 1..Len(mapping) |-> mapping[k].name]

\* a step of the loop stored the record at the loop's position after a
\* download of it that succeeded
StoredAfterOwnDownload ==
    /\ idx <= Len(emojis)
    /\ idx' = idx + 1
    /\ attempts' = Append(attempts, emojis[idx].name)
    /\ result'.synced = result.synced + 1
    /\ \E resp \in SyncResponses :
          LET got == Download(emojis[idx], resp)
              kept == Store(metadata, cacheFiles, emojis[idx],
                            Served(emojis[idx].url, version), got.size, now)
          IN  /\ got.kind = "ok"
              /\ metadata' = kept.metadata
              /\ cacheFiles' = kept.files
              /\ metaDisk' = kept.disk

(***************************************************************************)
(* C29.  In one call of sync_provider the listing is fetched once, when    *)
(* the call begins, and is the one the loop runs over; a step of the loop  *)
(* attempts at most one download, that of the record at the loop's         *)
(* position, and moves on, so the attempts are records of the listing in   *)
(* listing order, none twice; the cache changes in the loop only by the    *)
(* store of the record whose download just succeeded; and the published    *)
(* directory changes only in the step that follows the last record.        *)
(***************************************************************************)
C29_OneFetchOneAttemptPerRecordInOrder ==
    [][ /\ emojis' # emojis => (pc # "loop" /\ runs' = runs + 1 /\ attempts' = <<>>)
        /\ (pc' = "loop") => (fetched' /\ emojis' = FetchEmojis(remote'))
        /\ (pc = "loop" /\ pc' = "loop") =>
              /\ idx' \in {idx, idx + 1}
              /\ \/ attempts' = attempts
                 \/ idx <= Len(emojis) /\ attempts' = Append(attempts, emojis[idx].name)
              /\ (idx' = idx) => UNCHANGED <<attempts, result, metadata, diskVars>>
        /\ (pc' \in {"loop", "done", "raised"}) =>
              /\ IsSubSeq(attempts', NamesOf(emojis'))
              /\ \A i, j \in 1..Len(attempts') : attempts'[i] = attempts'[j] => i = j
        /\ (pc = "loop" /\ <<metadata, cacheFiles, metaDisk>>' # <<metadata, cacheFiles, metaDisk>>)
              => StoredAfterOwnDownload
        /\ (pc = "loop" /\ result'.synced # result.synced) => StoredAfterOwnDownload
        /\ (iconFiles' # iconFiles \/ (pc = "loop" /\ pc' = "done")) =>
              /\ pc = "loop"
              /\ idx = Len(emojis) + 1
              /\ pc' = "done"
              /\ UNCHANGED <<attempts, result, metadata, cacheFiles, metaDisk>>
      ]_vars

\* a call returned after attempting both records of its listing, in order,
\* the first stored and the second failed
C29_WitnessTwoAttemptsOneStored ==
    /\ pc = "done"
    /\ fetched
    /\ attempts = NamesOf(emojis)
    /\ Len(attempts) = 2
    /\ GetCachedPath(emojis[1]) \in DOMAIN cacheFiles
    /\ GetCachedPath(emojis[2]) \notin DOMAIN cacheFiles
    /\ result.synced = 1
    /\ result.skipped = 1

(***************************************************************************)
(* emoji_index.py: create_custom_emoji_index and custom_emoji_generator.   *)
(* A name is a sequence of characters; the icons directory is a listing    *)
(* of entries in iteration order, each a namespace directory with its      *)
(* files or something that is not a directory.                             *)
(***************************************************************************)
\* calls of create_custom_emoji_index in one process
MaxBuilds == 2

\* PurePath.stem: the name up to its last dot, unless that dot is the first
\* or the last character
Stem(fname) ==
    LET dots == {k \in 1..Len(fname) : fname[k] = "."}
        last == CHOOSE k \in dots : \A l \in dots : l <= k
    IN  IF dots # {} /\ 1 < last /\ last < Len(fname)
        THEN SubSeq(fname, 1, last - 1)
        ELSE fname

\* emoji_file.name.startswith(".")
Hidden(fname) == fname # <<>> /\ fname[1] = "."

\* f"assets/emojis/{namespace}/{emoji_file.name}"
RelPath(namespace, fname) == <<"assets/emojis/">> \o namespace \o <<"/">> \o fname

\* f"{namespace}-{emoji_name}"
FullName(namespace, emoji_name) == namespace \o <<"-">> \o emoji_name

\* f":{name}:"
WithColons(n) == <<":">> \o n \o <<":">>

\* shortname.strip(":")
RECURSIVE StripColons(_)
StripColons(shortname) ==
    IF shortname = <<>> THEN <<>>
    ELSE IF Head(shortname) = ":" THEN StripColons(Tail(shortname))
    ELSE IF shortname[Len(shortname)] = ":"
         THEN StripColons(SubSeq(shortname, 1, Len(shortname) - 1))
    ELSE shortname

\* the file names of the model: two images of one stem, a name without
\* extension, a hidden file, and a stem that reads like a prefixed name
IconPng == <<"p", ".", "png">>
IconGif == <<"p", ".", "gif">>
IconBare == <<"q">>
IconHidden == <<".", "h">>
IconDashed == <<"s", "-", "p", ".", "png">>

\* the listings of one namespace directory
FileLists ==
    { <<>>, <<IconPng>>, <<IconHidden, IconBare>>, <<IconPng, IconGif>>, <<IconDashed>> }

\* the entries of the icons directory: namespace directories and plain files
IconEntries ==
    [name : {<<"s">>, <<"d">>}, is_dir : {TRUE}, files : FileLists]
        \cup [name : {<<"d">>}, is_dir : {FALSE}, files : {<<>>}]

\* the icons directory: missing, or its entries in iteration order
IconDirs ==
    [exists : {FALSE}, entries : {<<>>}]
        \cup [exists : {TRUE},
              entries : {<<>>} \cup {<<e>> : e \in IconEntries}
                           \cup {<<e, g>> : e \in {x \in IconEntries : x.name = <<"s">>},
                                            g \in {x \in IconEntries : x.name = <<"d">>}}
                           \cup {<<g, e>> : e \in {x \in IconEntries : x.name = <<"s">>},
                                            g \in {x \in IconEntries : x.name = <<"d">>}}]

\* the base path of the site, the same for every build of the process
BasePaths == {"/", "/docs/"}

\* a Markdown instance without the attribute
NoConfig ==
    [attached |-> FALSE, base_path |-> "/", namespace_prefix_required |-> FALSE,
     emoji_paths |-> EmptyMap]

\* faulty variant: the table of the configuration already attached is kept
ReusedConfig(old, base_path, required) ==
    [attached |-> TRUE, base_path |-> base_path, namespace_prefix_required |-> required,
     emoji_paths |-> old.emoji_paths]

\* lines 55-58: EmojiIndexConfig(base_path=..., namespace_prefix_required=...)
FreshConfig(old, base_path, required) ==
    [attached |-> TRUE, base_path |-> base_path, namespace_prefix_required |-> required,
     emoji_paths |-> EmptyMap]

\* lines 69-106: the files of one namespace directory, in iteration order;
\* acc holds config (the attached configuration) and added (the shortnames
\* put into the index)
RECURSIVE ScanFiles(_, _, _)
ScanFiles(namespace, files, acc) ==
    IF files = <<>> THEN acc
    ELSE LET emoji_file == Head(files)
             emoji_name == Stem(emoji_file)
             rel_path == RelPath(namespace, emoji_file)
             full_name == FullName(namespace, emoji_name)
             prefixed ==
                 [config |-> [acc.config EXCEPT !.emoji_paths = Put(@, full_name, rel_path)],
                  added |-> acc.added \cup {WithColons(full_name)}]
             both ==
                 [config |-> [prefixed.config EXCEPT
                                  !.emoji_paths = Put(@, emoji_name, rel_path)],
                  added |-> prefixed.added \cup {WithColons(emoji_name)}]
         IN  IF Hidden(emoji_file)
             THEN ScanFiles(namespace, Tail(files), acc)
             ELSE IF ~acc.config.namespace_prefix_required
             THEN ScanFiles(namespace, Tail(files), both)
             ELSE ScanFiles(namespace, Tail(files), prefixed)

\* lines 62-67: the entries of the icons directory
RECURSIVE ScanEntries(_, _)
ScanEntries(entries, acc) ==
    IF entries = <<>> THEN acc
    ELSE IF ~Head(entries).is_dir
    THEN ScanEntries(Tail(entries), acc)
    ELSE ScanEntries(Tail(entries), ScanFiles(Head(entries).name, Head(entries).files, acc))

\* create_custom_emoji_index(icons_dir, options, md, base_path,
\* namespace_prefix_required): the configuration attached to md and the
\* shortnames added to the index
CreateCustomEmojiIndex(icons_dir, old, base_path, required) ==
    LET start == [config |-> FreshConfig(old, base_path, required), added |-> {}]
    IN  IF icons_dir.exists THEN ScanEntries(icons_dir.entries, start) ELSE start

\* custom_emoji_generator(index, shortname, ..., title, ..., md)
CustomEmojiGenerator(config, shortname) ==
    LET emoji_name == StripColons(shortname)
    IN  IF config.attached /\ emoji_name \in DOMAIN config.emoji_paths
        THEN [tag |-> "img", title |-> shortname,
              src |-> <<config.base_path>> \o config.emoji_paths[emoji_name]]
        ELSE [tag |-> "to_svg", title |-> shortname, src |-> <<>>]

\* the Markdown instances of the process
Mds == {"md1", "md2"}

\* the shortnames the generator is asked for
Shortnames ==
    {WithColons(n) : n \in {<<"p">>, <<"h">>, <<"s", "-", "p">>, <<"d", "-", "q">>,
                            <<"smile">>}}

NoElement == [tag |-> "none", title |-> <<>>, src |-> <<>>]

InitIndex ==
    /\ call \in [name : {"emoji_index"}, icons_dir : IconDirs, base_path : BasePaths,
                 md : {[m \in Mds |-> NoConfig]},
                 builds : {0}, before : {NoConfig}, built : {"none"}, added : {{}},
                 asked : {"none"}, element : {NoElement}]
    /\ RestIdle

\* pymdownx.emoji sets up the Markdown instance m and calls the index function
IndexCreate(m, required) ==
    /\ call.name = "emoji_index"
    /\ call.builds < MaxBuilds
    /\ LET made == CreateCustomEmojiIndex(call.icons_dir, call.md[m], call.base_path, required)
       IN  call' = [call EXCEPT !.md[m] = made.config,
                                !.builds = @ + 1,
                                !.before = call.md[m],
                                !.built = m,
                                !.added = made.added,
                                !.asked = "none",
                                !.element = NoElement]
    /\ UNCHANGED callFrame

\* a sync between two builds changes the icons directory
IndexDirChange(dir) ==
    /\ call.name = "emoji_index"
    /\ call.builds \in 1..(MaxBuilds - 1)
    /\ call.built # "none"
    /\ dir # call.icons_dir
    /\ call' = [call EXCEPT !.icons_dir = dir, !.built = "none", !.added = {},
                            !.asked = "none", !.element = NoElement]
    /\ UNCHANGED callFrame

\* a page rendered with the Markdown instance m holds the shortname
IndexGenerate(m, shortname) ==
    /\ call.name = "emoji_index"
    /\ call.asked = "none"
    /\ call' = [call EXCEPT !.asked = m,
                            !.element = CustomEmojiGenerator(call.md[m], shortname)]
    /\ UNCHANGED callFrame

NextIndex ==
    \/ \E m \in Mds, required \in BOOLEAN : IndexCreate(m, required)
    \/ \E dir \in IconDirs : IndexDirChange(dir)
    \/ \E m \in Mds, shortname \in Shortnames : IndexGenerate(m, shortname)

SpecIndex == InitIndex /\ [][NextIndex]_vars

\* the files of the icons directory that are emojis: <<namespace, file name>>
\* of every file of a namespace directory whose name does not begin with a dot
VisibleFiles(dir) ==
    IF ~dir.exists THEN {}
    ELSE UNION { {<<dir.entries[k].name, dir.entries[k].files[j]>> :
                     j \in {l \in 1..Len(dir.entries[k].files) :
                               dir.entries[k].files[l][1] # "."}} :
                 k \in {l \in 1..Len(dir.entries) : dir.entries[l].is_dir} }

\* the names to register for a directory: the prefixed name of every emoji
\* file and, unless the prefix is required, its unprefixed name
NamesToRegister(dir, required) ==
    {FullName(f[1], Stem(f[2])) : f \in VisibleFiles(dir)}
        \cup (IF required THEN {} ELSE {Stem(f[2]) : f \in VisibleFiles(dir)})

C31_WalkBoundedAtMaxDepthHops ==
    (call.name = "resolve_aliases" /\ call.done) =>
        \A n \in AliasNamesOf(call.emojis) :
            LET hops == ChainLength(call.emojis, n, Len(call.emojis))
            IN  /\ (ReachesConcrete(call.emojis, n) /\ hops <= MaxAliasDepth)
                      => ResolvedToEnd(call.emojis, call.out, n)
                /\ (ReachesConcrete(call.emojis, n) /\ hops > MaxAliasDepth)
                      => n \notin KeysOf(call.out)

(***************************************************************************)
(* C32.  A call of sync_provider whose fetch raises changes no asset file  *)
(* of the cache and not the metadata file, with force or clean_on_build    *)
(* set as without, writes nothing to the published directory and leaves no *)
(* staged file.                                                            *)
(***************************************************************************)
C32_FetchFailureLeavesDiskUnchanged ==
    [][ (runs' = runs + 1 /\ ~fetched') =>
            /\ cacheFiles' = cacheFiles
            /\ metaDisk' = metaDisk
            /\ iconFiles' = iconFiles
            /\ staged' = 0
      ]_vars

\* a forced call under clean_on_build whose fetch failed returned with the
\* cache and the published directory of the call before it still filled
C32_WitnessForcedFetchFailureKeepsCache ==
    /\ pc = "done"
    /\ ~fetched
    /\ force
    /\ clean_on_build
    /\ runs = 2
    /\ first.valid
    /\ cacheFiles # EmptyMap
    /\ metaDisk.exists
    /\ metaDisk.table # EmptyMap
    /\ iconFiles = first.icons
    /\ iconFiles # EmptyMap

\* the names of the records that the call counted as skipped
SkippedNames == {result.errors[k][2] : k \in 1..Len(result.errors)}

(***************************************************************************)
(* C33.  In a call without force and without clean_on_build, a step of the *)
(* loop that counts its record as skipped leaves every asset file of the   *)
(* cache, the metadata table and the metadata file as they were, and when  *)
(* the call publishes, every cache file of a skipped name, stale or not,   *)
(* is in the published directory with the cache's content.                 *)
(***************************************************************************)
C33_FailedDownloadKeepsTheCachedFile ==
    [][ (pc = "loop" /\ ~force /\ ~clean_on_build) =>
            /\ (result'.skipped = result.skipped + 1) =>
                  /\ cacheFiles' = cacheFiles
                  /\ metadata' = metadata
                  /\ metaDisk' = metaDisk
            /\ (pc' = "done") =>
                  \A fn \in DOMAIN cacheFiles :
                      fn[1] \in SkippedNames =>
                          /\ fn \in DOMAIN iconFiles'
                          /\ iconFiles'[fn] = cacheFiles[fn]
      ]_vars

\* the second call, unforced, failed to download again a record whose cached
\* copy had expired and whose image had changed on the remote side: the old
\* file is in the cache and in the published directory
C33_WitnessStaleFileStillPublished ==
    /\ pc = "done"
    /\ fetched
    /\ ~force
    /\ ~clean_on_build
    /\ runs = 2
    /\ version # "v1"
    /\ result.skipped = 1
    /\ \E fn \in DOMAIN cacheFiles :
          /\ fn[1] \in SkippedNames
          /\ fn[1] \in DOMAIN metadata
          /\ \E u \in Urls : cacheFiles[fn] = Served(u, "v1")
          /\ fn \in DOMAIN iconFiles
          /\ iconFiles[fn] = cacheFiles[fn]

(***************************************************************************)
(* sync_provider and clean_namespace on one namespace.                     *)
(***************************************************************************)
\* SyncManager.clean_namespace, between two calls of sync_provider: a cache
\* object of its own is opened and cleaned, and the namespace's directory
\* in the publish directory is removed
CleanNamespace ==
    /\ pc \in {"done", "raised"}
    /\ ~LoadRaises(metaDisk)
    /\ iconFiles # EmptyMap
    /\ LET cleaned == Clean(LoadMetadata(metaDisk), cacheFiles)
       IN  /\ cacheFiles' = cleaned.files
           /\ metaDisk' = cleaned.disk
    /\ iconFiles' = EmptyMap
    /\ UNCHANGED <<cfgVars, now, worldVars, staged, callVars>>
    /\ UNCHANGED auxVars

NextNamespace ==
    \/ \E f \in BOOLEAN : SyncFetchFailed(f, FALSE)
    \/ \E f \in BOOLEAN : SyncBegin(f, FALSE)
    \/ \E resp \in ProgressResponses : SyncRecord(resp)
    \/ SyncPublish
    \/ Tick
    \/ RemoteChange
    \/ CleanNamespace

SpecNamespace == InitProgress /\ [][NextNamespace]_vars

(***************************************************************************)
(* C34.  No step of sync_provider, forced or not, removes a file name from *)
(* the published directory of the namespace; the only step that removes    *)
(* one is clean_namespace, which empties the directory and the cache.      *)
(***************************************************************************)
C34_PublishedNamesOnlyGrow ==
    [][ /\ (pc = "loop" \/ runs' # runs) => DOMAIN iconFiles \subseteq DOMAIN iconFiles'
        /\ ~(DOMAIN iconFiles \subseteq DOMAIN iconFiles') =>
              /\ pc' = pc
              /\ pc # "loop"
              /\ iconFiles' = EmptyMap
              /\ cacheFiles' = EmptyMap
      ]_vars

\* a forced second call has returned: a file that the first call published
\* is in the published directory although the cache, cleaned and refilled
\* by the second call, does not have it
C34_WitnessPublishedFileOutlivesItsCacheFile ==
    /\ pc = "done"
    /\ fetched
    /\ force
    /\ runs = 2
    /\ first.valid
    /\ \E fn \in DOMAIN iconFiles :
          /\ fn \in DOMAIN first.icons
          /\ fn \notin DOMAIN cacheFiles
          /\ iconFiles[fn] = first.icons[fn]

(***************************************************************************)
(* C35.  When store, clean or clean_stale has returned, the table in the   *)
(* metadata file equals the table in memory: a cache opened on the same    *)
(* namespace finds the same rows, and no row that clean_stale removed.     *)
(***************************************************************************)
C35_PersistedTableEqualsMemory ==
    cacheOp.op \in {"store", "clean", "clean_stale"} => LoadMetadata(metaDisk) = metadata

(***************************************************************************)
(* C36.  No staged temporary file outlives its use: when an iteration of   *)
(* sync_provider has ended, its download having returned or failed with    *)
(* DownloadError for whatever reason, and when sync_provider has returned, *)
(* no staged file made by a download of the call is on disk.               *)
(***************************************************************************)
C36_NoStagedFileOutlivesItsUse ==
    pc \in {"loop", "done"} => staged = 0

(***************************************************************************)
(* SpecFresh: the cache operations on a namespace that starts empty, with  *)
(* no metadata file.                                                       *)
(***************************************************************************)
InitFresh == InitCache /\ cacheFiles = EmptyMap /\ metaDisk = NoMetaFile

SpecFresh == InitFresh /\ [][NextCache]_vars

\* _get_cached_path of the record that a metadata row was stored for
RowPath(n, row) ==
    GetCachedPath([name |-> n, url |-> row.url, format |-> row.format, alias_of |-> NoAlias])

(***************************************************************************)
(* C37.  In every state that store, clean and clean_stale reach from an    *)
(* empty namespace, every asset file is the cache path of exactly one      *)
(* metadata row, and no name has two asset files: a name stored again      *)
(* under another extension has no file under the old one, and clean_stale  *)
(* leaves no file of a row it removed.                                     *)
(***************************************************************************)
C37_OneFilePerRowAndPerName ==
    /\ \A fn \in DOMAIN cacheFiles :
          Cardinality({n \in DOMAIN metadata : RowPath(n, metadata[n]) = fn}) = 1
    /\ \A n \in Names : Cardinality(WithStem(cacheFiles, n)) <= 1

(***************************************************************************)
(* C38.  resolve_aliases is idempotent: no record of its result is an      *)
(* alias, a resolved alias being a new record without alias_of, and        *)
(* resolve_aliases applied to its result returns that result.              *)
(***************************************************************************)
C38_ResolveAliasesIsIdempotent ==
    (call.name = "resolve_aliases" /\ call.done) =>
        /\ AliasNamesOf(call.out) = {}
        /\ ResolveAliases(call.out) = call.out

\* a chain too long to resolve in full went in head first: some of its
\* aliases are in the result as records with a URL, some are not, and the
\* result goes through resolve_aliases again unchanged
C38_WitnessPartlyResolvedChain ==
    /\ call.name = "resolve_aliases"
    /\ call.done
    /\ \E n \in AliasNamesOf(call.emojis) :
          /\ n \in KeysOf(call.out)
          /\ Lookup(call.out, n).alias_of = NoAlias
          /\ Lookup(call.out, n).url # NoUrl
    /\ \E n \in AliasNamesOf(call.emojis) : n \notin KeysOf(call.out)
    /\ ResolveAliases(call.out) = call.out

(***************************************************************************)
(* SpecSlackFilter: fetch_emojis of a Slack provider configured with       *)
(* include and exclude patterns, on a listing of an image and aliases that *)
(* lead to it.  Names are strings here, as resolve_aliases compares them;  *)
(* fnmatch reads them character by character.                              *)
(***************************************************************************)
SlackNames == {"p", "q", "pq", "qq"}

\* the characters of a name
Spell(n) ==
    CASE n = "p"  -> <<"p">>
      [] n = "q"  -> <<"q">>
      [] n = "pq" -> <<"p", "q">>
      [] n = "qq" -> <<"q", "q">>

\* self.filter_emojis(emojis) on a mapping keyed by strings
FilterByName(mapping, include_patterns, exclude_patterns) ==
    LET spelled == [k \in 1..Len(mapping) |-> [mapping[k] EXCEPT !.name = Spell(@)]]
        kept    == FilterEmojis(spelled, include_patterns, exclude_patterns)
        keep(e) == \E j \in 1..Len(kept) : kept[j].name = Spell(e.name)
    IN  SelectSeq(mapping, keep)

\* faulty variant: fetch_emojis resolving the aliases before it filters
FetchResolvedFirst(listing, include_patterns, exclude_patterns) ==
    FilterByName(ResolveAliases(SlackParse(listing)), include_patterns, exclude_patterns)

\* SlackEmojiProvider.fetch_emojis on a successful response: parse, filter,
\* resolve
FetchFiltered(listing, include_patterns, exclude_patterns) ==
    ResolveAliases(FilterByName(SlackParse(listing), include_patterns, exclude_patterns))

\* an image c, an alias of c, and possibly an alias of that alias, listed in
\* either order
SlackListings ==
    { <<<<c, <<"url", UrlPng>>>>, <<m, <<"alias", c>>>>>> :
          c \in SlackNames, m \in SlackNames \ {"p"} }
    \cup { <<<<c, <<"url", UrlPng>>>>, <<m, <<"alias", c>>>>, <<h, <<"alias", m>>>>>> :
          c \in SlackNames, m \in SlackNames, h \in SlackNames }
    \cup { <<<<h, <<"alias", m>>>>, <<m, <<"alias", c>>>>, <<c, <<"url", UrlPng>>>>>> :
          c \in SlackNames, m \in SlackNames, h \in SlackNames }

DistinctNames(listing) ==
    \A j, k \in 1..Len(listing) : listing[j][1] = listing[k][1] => j = k

InitSlackFilter ==
    /\ call \in [name : {"slack_fetch_emojis"},
                 listing : {l \in SlackListings : DistinctNames(l)},
                 include_patterns : SUBSET Patterns, exclude_patterns : SUBSET Patterns,
                 done : {FALSE}, out : {<<>>}]
    /\ RestIdle

\* emojis = provider.fetch_emojis(), the API having answered with the listing
FetchWithFilter ==
    /\ call.name = "slack_fetch_emojis"
    /\ ~call.done
    /\ call' = [call EXCEPT !.done = TRUE,
                   !.out = FetchFiltered(call.listing, call.include_patterns,
                                         call.exclude_patterns)]
    /\ UNCHANGED callFrame

NextSlackFilter == FetchWithFilter

SpecSlackFilter == InitSlackFilter /\ [][NextSlackFilter]_vars

\* the name passes the filter of the call
PassesFilter(n) ==
    /\ ~MatchesAny(Spell(n), call.exclude_patterns)
    /\ (call.include_patterns = {} \/ MatchesAny(Spell(n), call.include_patterns))

\* the names on the chain of alias n after n itself: its target, and the
\* targets of the aliases that follow
RECURSIVE ChainAfter(_, _, _)
ChainAfter(mapping, n, fuel) ==
    IF n \notin KeysOf(mapping) \/ fuel = 0 THEN {}
    ELSE IF ~IsAlias(Lookup(mapping, n)) THEN {}
    ELSE {Lookup(mapping, n).alias_of}
            \cup ChainAfter(mapping, Lookup(mapping, n).alias_of, fuel - 1)

(***************************************************************************)
(* C39.  Slack fetch_emojis filters before it resolves aliases: every name *)
(* of its result passes the filter, and an alias whose own name passes the *)
(* filter while its target, or an alias between it and its target, is     *)
(* removed by the filter is not in the result.                             *)
(***************************************************************************)
C39_FilterComesBeforeAliasResolution ==
    (call.name = "slack_fetch_emojis" /\ call.done) =>
        LET parsed == SlackParse(call.listing)
        IN  /\ \A n \in KeysOf(call.out) : PassesFilter(n)
            /\ \A n \in AliasNamesOf(parsed) :
                  (/\ PassesFilter(n)
                   /\ \E t \in ChainAfter(parsed, n, Len(parsed)) : ~PassesFilter(t))
                      => n \notin KeysOf(call.out)

\* the head of a chain of two aliases and the image pass the filter, the
\* alias between them does not: the image is in the result, the head is not
C39_WitnessIntermediateAliasFilteredOut ==
    /\ call.name = "slack_fetch_emojis"
    /\ call.done
    /\ Len(call.listing) = 3
    /\ LET parsed == SlackParse(call.listing)
       IN  \E h, m \in AliasNamesOf(parsed) :
              /\ Lookup(parsed, h).alias_of = m
              /\ PassesFilter(h)
              /\ ~PassesFilter(m)
              /\ PassesFilter(Lookup(parsed, m).alias_of)
              /\ Lookup(parsed, m).alias_of \in KeysOf(call.out)
              /\ h \notin KeysOf(call.out)

(***************************************************************************)
(* C9.  The extension of a record's cache path is the one that             *)
(* EmojiInfo.get_file_extension() returns for the same record: the         *)
(* explicit format, else the extension of the URL's path when it is a      *)
(* known format, else png.                                                 *)
(***************************************************************************)
C9_CachedPathExtensionIsFileExtension ==
    (extCache # "" /\ extFile # "") => extCache = extFile

====
